---------------------------- MODULE Spec2Model ----------------------------
(***************************************************************************)
(* Model of the RafilisAN desktop shell (src/src/App.tsx): the React       *)
(* component that admits files under a trial quota, drives a processing    *)
(* run on the backend through start/stop and a self-rescheduling progress  *)
(* poll, and runs the license activation protocol with its lockout.        *)
(*                                                                         *)
(* Conventions.  A JavaScript string is a sequence of one-character        *)
(* strings, so that startsWith, trim, length and split act on characters.  *)
(* An optional value (undefined or a value) is the empty sequence or a     *)
(* one-element sequence.  React state is a variable; a ref is a variable   *)
(* of its own, because the code copies state into refs in effects that run *)
(* after the render.  A closure that survives an await keeps the values it *)
(* captured: they are stored with the request in flight.                   *)
(***************************************************************************)
EXTENDS Integers, Sequences, FiniteSets, TLC

VARIABLES
    \* ---- session store and run control (App.tsx 45-55, 81)
    audioFiles,          \* useState<AudioFile[]>
    isProcessing,        \* useState<boolean>
    shouldStopPolling,   \* useState<boolean>
    targetLUFS,          \* useState<number>
    pollingTimeoutRef,   \* useRef: 0 (null) or the loop whose timer was set last
    poll,                \* per call of startProcessing: where its pollForUpdates loop is
    nStarts,             \* calls of startProcessing that got past the empty-list test
    stops,               \* POST /stop requests in flight
    statusReq,           \* the GET /status request in flight and its answer
    beProcessing,        \* the backend: is a run active
    beLevel,             \* the backend: how far its run has come, in steps
    stopForced,          \* stopProcessing has forced the statuses since the last start
    lastRun,             \* the run step just taken and the list it found
    \* ---- refs read by the bridge handlers, license snapshot (56, 85-92)
    audioFilesRef,
    licenseInfo,
    licenseInfoRef,
    remainingTrialFiles,
    remainingTrialFilesRef,
    showUpgradeModal,
    showTrialExpired,
    lastAdmit,           \* the last bridge event handled and what the handler read
    \* ---- license activation (57-58, 66-75)
    now,                 \* Date.now(), in ms since the component was created
    licenseKey,
    isActivating,
    activationError,
    activationAttempts,
    lockoutUntil,
    lockoutCountdown,
    showSettings,
    showDeactivationModal,
    activateEnabled,     \* the Activate button as the last render left it (1207-1213)
    actReq,              \* the activate/deactivate call in flight, with what it captured
    lastAct,             \* the last activation step taken and the state around it
    failedInARow,        \* failed activation requests since the last successful one
    thirdFailureAt,      \* when failedInARow is 3: the time of the third failure
    beTier,              \* the backend: the tier of its license, "trial" or "paid"
    \* ---- life cycle of the component and what its effects own (82, 104-120, 172-307)
    mounted,             \* the component is mounted
    mounts,              \* how many times it has been mounted; the instance of now
    listeners,           \* ipcRenderer: the number of listeners on each channel
    statusInterval,      \* per instance: setInterval(checkBackendStatus, 2000) is live
    licenseIntervalRef,  \* per instance: 0 (null) or the period of the live interval
    cadence              \* per instance: the getLicenseCheckInterval() promise

None == <<>>
Some(v) == <<v>>

Max(a, b) == IF a >= b THEN a ELSE b
Min(a, b) == IF a <= b THEN a ELSE b

(***************************************************************************)
(* JavaScript strings                                                      *)
(***************************************************************************)
\* String.prototype.startsWith
StartsWith(s, p) == Len(s) >= Len(p) /\ SubSeq(s, 1, Len(p)) = p

IsSpace(ch) == ch = " "

RECURSIVE TrimStart(_)
TrimStart(s) == IF s # <<>> /\ IsSpace(Head(s)) THEN TrimStart(Tail(s)) ELSE s

RECURSIVE TrimEnd(_)
TrimEnd(s) ==
    IF s # <<>> /\ IsSpace(s[Len(s)]) THEN TrimEnd(SubSeq(s, 1, Len(s) - 1)) ELSE s

\* String.prototype.trim
Trim(s) == TrimEnd(TrimStart(s))

\* filePath.split('/').pop(): the characters after the last '/'
RECURSIVE LastSegment(_)
LastSegment(s) ==
    IF s = <<>> \/ s[Len(s)] = "/" THEN <<>>
    ELSE Append(LastSegment(SubSeq(s, 1, Len(s) - 1)), s[Len(s)])

\* Array.prototype.slice(0, n) for n >= 0
Slice0(s, n) == SubSeq(s, 1, Min(n, Len(s)))

StrTrial == <<"T", "r", "i", "a", "l">>
StrTrialExpired == StrTrial \o <<" ", "E", "x", "p", "i", "r", "e", "d">>
StrPro == <<"P", "r", "o">>

(***************************************************************************)
(* Bounds of the quota model                                               *)
(***************************************************************************)
MaxQuota == 2        \* remaining_trial_files the backend reports: 0..MaxQuota
MaxOffered == 2      \* paths offered by one files-selected event: 0..MaxOffered
MaxFiles == 2        \* the file list is not grown beyond this length

PathA == <<"/", "m", "/", "a">>
PathB == <<"/", "b">>
Paths == {PathA, PathB}

RECURSIVE SeqsUpTo(_, _)
SeqsUpTo(S, n) ==
    IF n = 0 THEN {<<>>}
    ELSE LET shorter == SeqsUpTo(S, n - 1)
         IN  shorter \cup {Append(q, x) : q \in {r \in shorter : Len(r) = n - 1}, x \in S}

Offers == SeqsUpTo(Paths, MaxOffered)

(***************************************************************************)
(* Session store entries                                                   *)
(***************************************************************************)
\* the entry both bridge handlers create (244-248, 282-286)
NewAudioFile(filePath) ==
    [name |-> IF LastSegment(filePath) # <<>> THEN LastSegment(filePath) ELSE filePath,
     path |-> filePath,
     status |-> "pending",
     currentLUFS |-> None,
     newLUFS |-> None,
     progress |-> None]

NewAudioFiles(filePaths) == [i \in 1..Len(filePaths) |-> NewAudioFile(filePaths[i])]

(***************************************************************************)
(* Quota guard: the files-selected and file-dropped handlers               *)
(***************************************************************************)
\* licenseInfoRef.current && .status && .status.startsWith('Trial') (226, 271)
RefIsTrial ==
    /\ licenseInfoRef # None
    /\ licenseInfoRef[1].status # <<>>
    /\ StartsWith(licenseInfoRef[1].status, StrTrial)

\* Math.max(0, remainingTrialFilesRef.current - currentCount) (227-228, 272-273)
AvailableSlots == Max(0, remainingTrialFilesRef - Len(audioFilesRef))

\* mutant: the slice keeps one path more than there are slots
FinalFilePathsOneMore(filePaths) ==
    IF RefIsTrial /\ Len(filePaths) > AvailableSlots
    THEN Slice0(filePaths, AvailableSlots + 1)
    ELSE filePaths

\* finalFilePaths of the files-selected handler (225-242)
FinalFilePaths(filePaths) ==
    IF RefIsTrial /\ Len(filePaths) > AvailableSlots
    THEN Slice0(filePaths, AvailableSlots)
    ELSE filePaths

\* the handler returns before appending: quota exhausted (230-240)
SelectedBlocked(filePaths) ==
    RefIsTrial /\ Len(filePaths) > AvailableSlots /\ ~(AvailableSlots > 0)

NoAdmit == [op |-> "none"]

\* what the handler was given, what it read, and what it appended to the list
AdmitRecord(op, filePaths, after) ==
    [op |-> op, offered |-> filePaths, license |-> licenseInfoRef,
     r |-> remainingTrialFilesRef, c |-> Len(audioFilesRef),
     kept |-> (Len(after) >= Len(audioFiles) /\ SubSeq(after, 1, Len(audioFiles)) = audioFiles),
     appended |-> [i \in 1..(Len(after) - Len(audioFiles)) |-> after[Len(audioFiles) + i]]]

\* mutant: setAudioFiles(newFiles) in place of setAudioFiles(prev => [...prev, ...newFiles])
FilesSelectedReplaces(filePaths) ==
    /\ Len(FinalFilePaths(filePaths)) <= MaxFiles
    /\ IF SelectedBlocked(filePaths)
       THEN /\ showUpgradeModal' = TRUE
            /\ UNCHANGED audioFiles
       ELSE /\ audioFiles' = NewAudioFiles(FinalFilePaths(filePaths))
            /\ UNCHANGED showUpgradeModal
    /\ lastAdmit' = AdmitRecord("files-selected", filePaths, audioFiles')

\* the files-selected handler (218-250)
FilesSelected(filePaths) ==
    /\ Len(audioFiles) + Len(FinalFilePaths(filePaths)) <= MaxFiles
    /\ IF SelectedBlocked(filePaths)
       THEN /\ showUpgradeModal' = TRUE
            /\ UNCHANGED audioFiles
       ELSE /\ audioFiles' = audioFiles \o NewAudioFiles(FinalFilePaths(filePaths))
            /\ UNCHANGED showUpgradeModal
    /\ lastAdmit' = AdmitRecord("files-selected", filePaths, audioFiles')

\* mutant: the drop handler tests availableSlots < 0
DroppedBlockedNever == RefIsTrial /\ AvailableSlots < 0

\* the handler returns before appending (271-280)
DroppedBlocked == RefIsTrial /\ AvailableSlots <= 0

\* the file-dropped handler (267-288)
FileDropped(filePath) ==
    /\ Len(audioFiles) + 1 <= MaxFiles
    /\ IF DroppedBlocked
       THEN /\ showUpgradeModal' = TRUE
            /\ UNCHANGED audioFiles
       ELSE /\ audioFiles' = Append(audioFiles, NewAudioFile(filePath))
            /\ UNCHANGED showUpgradeModal
    /\ lastAdmit' = AdmitRecord("file-dropped", <<filePath>>, audioFiles')


(***************************************************************************)
(* License snapshot and its refresh (fetchLicenseInfo)                     *)
(***************************************************************************)
InitialRemaining == 10   \* useState<number>(10)
Unlimited == 999         \* the quota stored for a non-trial license

License(status, remaining) == [status |-> status, remaining_trial_files |-> remaining]

Licenses ==
    {License(StrTrial, r) : r \in 0..MaxQuota}
        \cup {License(StrTrialExpired, 0), License(StrPro, 0)}

\* what GET /license/status can come back with
LicenseResponses ==
    {[kind |-> "ok", license |-> l] : l \in Licenses}
        \cup {[kind |-> "rejected"], [kind |-> "error"]}

\* the React state the license code reads and writes, as one record
ActState ==
    [licenseKey |-> licenseKey, isActivating |-> isActivating,
     activationError |-> activationError, activationAttempts |-> activationAttempts,
     lockoutUntil |-> lockoutUntil, lockoutCountdown |-> lockoutCountdown,
     showSettings |-> showSettings, showDeactivationModal |-> showDeactivationModal,
     showTrialExpired |-> showTrialExpired, licenseInfo |-> licenseInfo,
     remainingTrialFiles |-> remainingTrialFiles]

\* the body of fetchLicenseInfo after its await (142-168)
fetchLicenseInfo(s, resp) ==
    IF resp.kind = "error" THEN [s EXCEPT !.licenseInfo = None]
    ELSE IF resp.kind = "rejected" THEN s
    ELSE LET license == resp.license
             trial == license.status # <<>> /\ StartsWith(license.status, StrTrial)
         IN  [s EXCEPT
                !.licenseInfo = Some(license),
                !.remainingTrialFiles =
                    IF trial THEN license.remaining_trial_files ELSE Unlimited,
                !.showTrialExpired =
                    IF license.status = StrTrialExpired /\ license.remaining_trial_files <= 0
                    THEN TRUE ELSE s.showTrialExpired]

(***************************************************************************)
(* License activation protocol                                             *)
(***************************************************************************)
MinKeyLength == 20       \* key.length >= 20
MaxAttempts == 3         \* newAttempts >= 3
LockoutMs == 60000       \* 60 * 1000
CountdownMs == 1000      \* (lockoutUntil - now) / 1000

ClockStep == 30000       \* the clock advances in steps of this many ms
MaxNow == 100000         \* and stops here
MaxStreak == 4           \* failedInARow counts up to this

RECURSIVE Rep(_, _)
Rep(ch, n) == IF n = 0 THEN <<>> ELSE <<ch>> \o Rep(ch, n - 1)

KeyPrefix == <<"R", "A", "F", "I", "L", "I", "S", "-">>
KeyGood == KeyPrefix \o Rep("A", 12)
KeyShort == KeyPrefix \o <<"1", "2", "3">>
KeyBlank == <<" ", " ">>
KeyPadded == KeyPrefix \o Rep("A", 11) \o <<" ">>

\* what the user can type into the key field
Keys == {<<>>, KeyBlank, KeyShort, KeyGood, KeyPadded}

\* keys on both sides of each test of the format check
KeyBadPrefix == <<"B", "A", "D", "P", "R", "E", "F", "I", "X", "-">> \o Rep("A", 12)
KeyNineteen == KeyPrefix \o Rep("A", 11)
KeyLowerPrefix == <<"r", "a", "f", "i", "l", "i", "s", "-">> \o Rep("A", 12)
KeyLeadSpace == <<" ">> \o KeyGood
KeyTrailSpace == KeyGood \o <<" ">>
KeyNoDash == <<"R", "A", "F", "I", "L", "I", "S">> \o Rep("A", 13)

FormatKeys ==
    Keys \cup {KeyBadPrefix, KeyNineteen, KeyLowerPrefix, KeyLeadSpace, KeyTrailSpace,
               KeyNoDash}

UpperCase == <<"A", "B", "C", "D", "E", "F", "G", "H", "I", "J", "K", "L", "M",
               "N", "O", "P", "Q", "R", "S", "T", "U", "V", "W", "X", "Y", "Z">>
LowerCase == <<"a", "b", "c", "d", "e", "f", "g", "h", "i", "j", "k", "l", "m",
               "n", "o", "p", "q", "r", "s", "t", "u", "v", "w", "x", "y", "z">>

\* String.prototype.toLowerCase
ToLowerCase(s) ==
    [i \in 1..Len(s) |->
        IF \E k \in 1..Len(UpperCase) : UpperCase[k] = s[i]
        THEN LowerCase[CHOOSE k \in 1..Len(UpperCase) : UpperCase[k] = s[i]]
        ELSE s[i]]

\* String.prototype.includes
Includes(s, p) == \E i \in 1..(Len(s) - Len(p) + 1) : SubSeq(s, i, i + Len(p) - 1) = p

\* Math.ceil(a / b) for b > 0
CeilDiv(a, b) == -((-a) \div b)

MsgNone == ""
MsgEnterKey == "Please enter a license key"
MsgInvalidFormat == "Please enter a valid license key."
MsgTooMany == "Too many attempts. Please wait"
MsgLockedOut == "Too many failed attempts. Please wait 1 minute before trying again"
MsgServerSaid == "response.data.error"
MsgActivationFailed == "Activation failed"
MsgNetwork == "Network error. Please check your connection"
MsgInvalidKey == "Invalid license key"
MsgServer == "Server error. Please try again later"
MsgTryAgain == "Activation failed. Please try again"
MsgDeactivationFailed == "Deactivation failed"
MsgDeactivationInvalid == "Deactivation request invalid"
MsgDeactivationTryAgain == "Deactivation failed. Please try again"

\* how POST /license/activate or /license/deactivate can end: success, success=false
\* with or without an error text, or a thrown error of each kind the handler tells apart
Rejections == {"rejected", "rejected-text"}
TransportErrors == {"network", "http400", "http-other", "not-axios"}
Outcomes == {"success"} \cup Rejections \cup TransportErrors

\* mutant: the length test is missing
isValidLicenseKeyFormatPrefixOnly(key) == StartsWith(key, KeyPrefix)

\* isValidLicenseKeyFormat (643-653)
isValidLicenseKeyFormat(key) == StartsWith(key, KeyPrefix) /\ Len(key) >= MinKeyLength

\* mutant: the lockout test is missing
canAttemptActivationAlways(s) == TRUE

\* canAttemptActivation (656-671): what it returns ...
canAttemptActivation(s) == ~(now < s.lockoutUntil)

\* mutant: canAttemptActivation leaves the counter and the deadline alone
canAttemptActivationStateKeeps(s) == s

\* ... and the state it leaves
canAttemptActivationState(s) ==
    IF ~(now < s.lockoutUntil) /\ now >= s.lockoutUntil /\ s.activationAttempts >= MaxAttempts
    THEN [s EXCEPT !.activationAttempts = 0, !.lockoutUntil = 0]
    ELSE s

\* licenseInfo?.status?.toLowerCase().includes('pro') (1172)
IsProStatus(status) == Includes(ToLowerCase(status), <<"p", "r", "o">>)

ProStatuses == {l.status : l \in {x \in Licenses : IsProStatus(x.status)}}

LicenseIsPro(s) == s.licenseInfo # None /\ s.licenseInfo[1].status \in ProStatuses

\* the render evaluates disabled={isActivating || !licenseKey.trim() ||
\* !canAttemptActivation()} when the settings dialog shows the key field (1127, 1172, 1210)
ActivateButtonShown(s) == s.showSettings /\ ~LicenseIsPro(s)

ReachesCanAttempt(s) ==
    ActivateButtonShown(s) /\ ~s.isActivating /\ Trim(s.licenseKey) # <<>>

\* a render: canAttemptActivation's setState calls make React render again
Render(s) == IF ReachesCanAttempt(s) THEN canAttemptActivationState(s) ELSE s

ActivateButtonEnabled(s) == ReachesCanAttempt(s) /\ canAttemptActivation(s)

\* state updates of one task are committed and rendered before the next task runs
Commit(s) ==
    \E r \in {Render(s)} :
        /\ licenseKey' = r.licenseKey
        /\ isActivating' = r.isActivating
        /\ activationError' = r.activationError
        /\ activationAttempts' = r.activationAttempts
        /\ lockoutUntil' = r.lockoutUntil
        /\ lockoutCountdown' = r.lockoutCountdown
        /\ showSettings' = r.showSettings
        /\ showDeactivationModal' = r.showDeactivationModal
        /\ showTrialExpired' = r.showTrialExpired
        /\ licenseInfo' = r.licenseInfo
        /\ remainingTrialFiles' = r.remainingTrialFiles
        /\ activateEnabled' = ActivateButtonEnabled(r)

\* a step of the protocol: the state it found and the state s its code left
ActRecord(op, outcome, s) ==
    [op |-> op, outcome |-> outcome, at |-> now,
     key |-> licenseKey, attemptsBefore |-> activationAttempts,
     lockoutBefore |-> lockoutUntil, busyBefore |-> isActivating,
     attemptsAfter |-> s.activationAttempts, lockoutAfter |-> s.lockoutUntil,
     busyAfter |-> s.isActivating, errorAfter |-> s.activationError]

\* what is not state of the component: the history of the protocol and the
\* license the backend holds
historyVars == <<failedInARow, thirdFailureAt, beTier>>
lifeVars == <<mounted, mounts, listeners, statusInterval, licenseIntervalRef, cadence>>
runVars ==
    <<isProcessing, shouldStopPolling, targetLUFS, pollingTimeoutRef, poll, nStarts,
      stops, statusReq, beProcessing, beLevel, stopForced, lastRun, lifeVars>>
quotaVars == <<audioFilesRef, licenseInfoRef, remainingTrialFilesRef, showUpgradeModal>>
licenseVars ==
    <<licenseKey, isActivating, activationError, activationAttempts, lockoutUntil,
      lockoutCountdown, showSettings, showDeactivationModal, showTrialExpired,
      licenseInfo, remainingTrialFiles, activateEnabled>>
notLicense == <<audioFiles, runVars, quotaVars, lastAdmit>>
NoAct == [op |-> "none"]

\* activateLicense up to its await (673-699)
activateLicense ==
    LET s1 == [ActState EXCEPT !.activationError = MsgNone]
        rejected(msg, outcome) ==
            LET s == [s1 EXCEPT !.activationError = msg]
            IN  /\ Commit(s)
                /\ lastAct' = ActRecord("activateLicense", outcome, s)
                /\ UNCHANGED actReq
    IN  /\ actReq = None
        /\ IF Trim(licenseKey) = <<>> THEN rejected(MsgEnterKey, "empty")
           ELSE IF ~isValidLicenseKeyFormat(licenseKey)
           THEN rejected(MsgInvalidFormat, "format")
           ELSE IF ~canAttemptActivation(s1) THEN rejected(MsgTooMany, "locked")
           ELSE LET s == [canAttemptActivationState(s1) EXCEPT !.isActivating = TRUE]
                IN  /\ Commit(s)
                    /\ lastAct' = ActRecord("activateLicense", "sent", s)
                    \* the closure keeps the activationAttempts of the render it was
                    \* created in; the request carries licenseKey.trim()
                    /\ actReq' = Some([kind |-> "activate",
                                       attempts |-> activationAttempts,
                                       licenseKey |-> Trim(licenseKey)])
        /\ UNCHANGED <<now, historyVars, notLicense>>

\* the Activate button (1207-1213)
ClickActivate == activateEnabled /\ activateLicense

\* the message of the catch block (738-749)
TransportMessage(outcome) ==
    CASE outcome = "network" -> MsgNetwork
      [] outcome = "http400" -> MsgInvalidKey
      [] outcome = "http-other" -> MsgServer
      [] OTHER -> MsgTryAgain

\* mutant: the lockout starts one failure late (newAttempts > 3)
ActivationFailedLate(s, outcome) ==
    LET newAttempts == actReq[1].attempts + 1
        perError == IF outcome = "rejected-text" THEN MsgServerSaid
                    ELSE IF outcome = "rejected" THEN MsgActivationFailed
                    ELSE TransportMessage(outcome)
    IN  [s EXCEPT
           !.activationAttempts = newAttempts,
           !.lockoutUntil = IF newAttempts > MaxAttempts THEN now + LockoutMs ELSE @,
           !.activationError = IF newAttempts > MaxAttempts THEN MsgLockedOut ELSE perError,
           !.isActivating = FALSE]

\* mutant: the catch block does not count the attempt
ActivationFailedCatchFree(s, outcome) ==
    LET newAttempts == IF outcome \in TransportErrors THEN actReq[1].attempts
                       ELSE actReq[1].attempts + 1
        perError == IF outcome = "rejected-text" THEN MsgServerSaid
                    ELSE IF outcome = "rejected" THEN MsgActivationFailed
                    ELSE TransportMessage(outcome)
    IN  [s EXCEPT
           !.activationAttempts = newAttempts,
           !.lockoutUntil = IF newAttempts >= MaxAttempts THEN now + LockoutMs ELSE @,
           !.activationError = IF newAttempts >= MaxAttempts THEN MsgLockedOut ELSE perError,
           !.isActivating = FALSE]

\* a failed activation: the else branch (717-730) and the catch block (731-758),
\* then finally (759-761)
ActivationFailed(s, outcome) ==
    LET newAttempts == actReq[1].attempts + 1
        perError == IF outcome = "rejected-text" THEN MsgServerSaid
                    ELSE IF outcome = "rejected" THEN MsgActivationFailed
                    ELSE TransportMessage(outcome)
    IN  [s EXCEPT
           !.activationAttempts = newAttempts,
           !.lockoutUntil = IF newAttempts >= MaxAttempts THEN now + LockoutMs ELSE @,
           !.activationError = IF newAttempts >= MaxAttempts THEN MsgLockedOut ELSE perError,
           !.isActivating = FALSE]

\* mutant: the success branch leaves the counter and the key alone
ActivationSucceededKeeps(s) == [s EXCEPT !.lockoutUntil = 0, !.activationError = MsgNone]

\* a successful activation: the state updates before the refresh (701-706)
ActivationSucceeded(s) ==
    [s EXCEPT !.activationAttempts = 0, !.lockoutUntil = 0,
              !.licenseKey = <<>>, !.activationError = MsgNone]

\* the response of POST /license/activate arrives, or the request throws (697-761)
ActivateResponse(outcome) ==
    /\ actReq # None
    /\ actReq[1].kind = "activate"
    /\ IF outcome = "success"
       THEN LET s == ActivationSucceeded(ActState)
            IN  /\ Commit(s)
                /\ lastAct' = ActRecord("activated", outcome, s)
                /\ actReq' = Some([kind |-> "activate-refresh"])
                /\ failedInARow' = 0
                /\ thirdFailureAt' = 0
                /\ beTier' = "paid"
       ELSE LET s == ActivationFailed(ActState, outcome)
            IN  /\ Commit(s)
                /\ lastAct' = ActRecord("failed", outcome, s)
                /\ actReq' = None
                /\ failedInARow' = Min(failedInARow + 1, MaxStreak)
                /\ thirdFailureAt' = IF failedInARow + 1 = MaxAttempts THEN now ELSE 0
                /\ UNCHANGED beTier
    /\ UNCHANGED <<now, notLicense>>

\* await fetchLicenseInfo() returns; the dialogs close; finally (712-716, 759-761)
ActivateRefreshed(resp) ==
    /\ actReq = Some([kind |-> "activate-refresh"])
    /\ LET s == [fetchLicenseInfo(ActState, resp) EXCEPT
                    !.showSettings = FALSE, !.showTrialExpired = FALSE,
                    !.isActivating = FALSE]
       IN  /\ Commit(s)
           /\ lastAct' = ActRecord("refreshed", resp.kind, s)
    /\ actReq' = None
    /\ UNCHANGED <<now, historyVars, notLicense>>

\* mutant: deactivateLicense does not raise the busy flag
DeactivationStartedIdle(s) == [s EXCEPT !.activationError = MsgNone]

\* the state updates of deactivateLicense before its request (766-767)
DeactivationStarted(s) == [s EXCEPT !.isActivating = TRUE, !.activationError = MsgNone]

\* deactivateLicense up to its await (765-770)
deactivateLicense ==
    /\ actReq = None
    /\ LET s == DeactivationStarted(ActState)
       IN  /\ Commit(s)
           /\ lastAct' = ActRecord("deactivateLicense", "sent", s)
    /\ actReq' = Some([kind |-> "deactivate"])
    /\ UNCHANGED <<now, historyVars, notLicense>>

\* the Deactivate License button of the confirmation dialog is there and enabled
\* (1362, 1445)
DeactivateButtonEnabled(s) == s.showDeactivationModal /\ ~s.isActivating

\* the Deactivate License button of the confirmation dialog (1443-1446)
ClickDeactivate == DeactivateButtonEnabled(ActState) /\ deactivateLicense

\* the message of the catch block (787-798)
DeactivationMessage(outcome) ==
    CASE outcome = "rejected-text" -> MsgServerSaid
      [] outcome = "rejected" -> MsgDeactivationFailed
      [] outcome = "network" -> MsgNetwork
      [] outcome = "http400" -> MsgDeactivationInvalid
      [] outcome = "http-other" -> MsgServer
      [] OTHER -> MsgDeactivationTryAgain

\* mutant: a failed deactivation counts as a failed attempt
DeactivationFailedCounts(s, outcome) ==
    [s EXCEPT !.activationError = DeactivationMessage(outcome),
              !.activationAttempts = @ + 1, !.isActivating = FALSE]

\* a failed deactivation: the else branch (781-783) and the catch block (784-800),
\* then finally (801-803)
DeactivationFailed(s, outcome) ==
    [s EXCEPT !.activationError = DeactivationMessage(outcome), !.isActivating = FALSE]

\* the response of POST /license/deactivate arrives, or the request throws (770-803)
DeactivateResponse(outcome) ==
    /\ actReq = Some([kind |-> "deactivate"])
    /\ IF outcome = "success"
       THEN /\ actReq' = Some([kind |-> "deactivate-refresh"])
            /\ lastAct' = ActRecord("deactivated", outcome, ActState)
            /\ beTier' = "trial"
            /\ UNCHANGED licenseVars
       ELSE LET s == DeactivationFailed(ActState, outcome)
            IN  /\ Commit(s)
                /\ lastAct' = ActRecord("deactivation-failed", outcome, s)
                /\ actReq' = None
                /\ UNCHANGED beTier
    /\ UNCHANGED <<now, failedInARow, thirdFailureAt, notLicense>>

\* await fetchLicenseInfo() returns; the dialog closes; finally (777-780, 801-803)
DeactivateRefreshed(resp) ==
    /\ actReq = Some([kind |-> "deactivate-refresh"])
    /\ LET s == [fetchLicenseInfo(ActState, resp) EXCEPT
                    !.showDeactivationModal = FALSE, !.isActivating = FALSE]
       IN  /\ Commit(s)
           /\ lastAct' = ActRecord("deactivation-refreshed", resp.kind, s)
    /\ actReq' = None
    /\ UNCHANGED <<now, historyVars, notLicense>>

\* a fetchLicenseInfo call of the mount effect or of the license interval
\* completes (174, 204, 139-169)
LicenseRefresh(resp) ==
    /\ Commit(fetchLicenseInfo(ActState, resp))
    /\ lastAct' = NoAct
    /\ lastAdmit' = NoAdmit
    /\ UNCHANGED <<now, actReq, historyVars, audioFiles, runVars, quotaVars>>

\* one firing of the lockout countdown interval (328-344)
CountdownTick ==
    /\ lockoutUntil > 0
    /\ LET remaining == Max(0, CeilDiv(lockoutUntil - now, CountdownMs))
           s1 == [ActState EXCEPT !.lockoutCountdown = remaining]
           s == IF remaining = 0
                THEN [s1 EXCEPT !.lockoutUntil = 0, !.activationAttempts = 0,
                                !.activationError = MsgNone]
                ELSE s1
       IN  Commit(s)
    /\ lastAct' = NoAct
    /\ UNCHANGED <<now, actReq, historyVars, notLicense>>

\* the settings button of the header (871-880)
OpenSettings ==
    /\ Commit([ActState EXCEPT !.showSettings = TRUE, !.activationError = MsgNone])
    /\ lastAct' = NoAct
    /\ UNCHANGED <<now, actReq, historyVars, notLicense>>

\* the close button and the overlay of the settings dialog (1128-1143)
CloseSettings ==
    /\ showSettings
    /\ Commit([ActState EXCEPT !.showSettings = FALSE, !.activationError = MsgNone])
    /\ lastAct' = NoAct
    /\ UNCHANGED <<now, actReq, historyVars, notLicense>>

\* the key field's onChange (1196-1206)
EditKey(key) ==
    /\ ActivateButtonShown(ActState)
    /\ ~isActivating
    /\ Commit([ActState EXCEPT !.licenseKey = key, !.activationError = MsgNone])
    /\ lastAct' = NoAct
    /\ UNCHANGED <<now, actReq, historyVars, notLicense>>

\* the Enter License button of the trial-expired dialog (1320-1327)
EnterLicense ==
    /\ showTrialExpired /\ ~showSettings
    /\ Commit([ActState EXCEPT !.showTrialExpired = FALSE, !.showSettings = TRUE,
                               !.activationError = MsgNone])
    /\ lastAct' = NoAct
    /\ UNCHANGED <<now, actReq, historyVars, notLicense>>

\* the Deactivate This Device button of the settings dialog (1182-1188)
OpenDeactivation ==
    /\ showSettings /\ LicenseIsPro(ActState) /\ ~isActivating
    /\ Commit([ActState EXCEPT !.showDeactivationModal = TRUE])
    /\ lastAct' = NoAct
    /\ UNCHANGED <<now, actReq, historyVars, notLicense>>

\* the close and Cancel buttons of the confirmation dialog (1370-1375, 1428-1435)
CloseDeactivation ==
    /\ showDeactivationModal
    /\ Commit([ActState EXCEPT !.showDeactivationModal = FALSE,
                               !.activationError = MsgNone])
    /\ lastAct' = NoAct
    /\ UNCHANGED <<now, actReq, historyVars, notLicense>>

\* any other state update renders the component again, such as the backend status
\* the 2 s interval stores (175, 346-355)
Rerender ==
    /\ Commit(ActState)
    /\ lastAct' = NoAct
    /\ UNCHANGED <<now, actReq, historyVars, notLicense>>

\* time passes
Tick ==
    /\ now + ClockStep <= MaxNow
    /\ now' = now + ClockStep
    /\ lastAct' = NoAct
    /\ UNCHANGED <<licenseVars, actReq, historyVars, notLicense>>

\* the close button of the trial-expired dialog (1262-1266)
CloseTrialExpired ==
    /\ showTrialExpired /\ ~showSettings
    /\ Commit([ActState EXCEPT !.showTrialExpired = FALSE])
    /\ lastAct' = NoAct
    /\ UNCHANGED <<now, actReq, historyVars, notLicense>>

(***************************************************************************)
(* Session controller and progress poller                                  *)
(***************************************************************************)
MaxStarts == 2           \* calls of startProcessing in one behaviour
MaxStops == 2            \* POST /stop requests in flight at once
MaxRunFiles == 2         \* length of the file list of a run

\* progress is a fraction; the model counts hundredths
FinalizingAt == 95       \* fileProgress >= 0.95
NormalizingAbove == 50   \* fileProgress > 0.5
FullProgress == 100      \* progress: 1, fileProgress >= 1.0

MaxLevel == 2            \* steps of a backend run
LevelStep == 30          \* hundredths of progress a step of the backend adds

NoRun == [op |-> "none"]

Truthy(opt) == opt # None /\ opt[1] # 0

\* a || b on optional numbers
OrElse(a, b) == IF Truthy(a) THEN a ELSE b

Statuses(files) == [i \in 1..Len(files) |-> files[i].status]

\* mutant: the stop rule leaves newLUFS as it is
StopRuleKeepsNew(file) ==
    IF file.status = "completed" \/ file.status = "normalized" THEN file
    ELSE [file EXCEPT !.status = "stopped", !.progress = Some(0)]

\* the stop rule (421-435)
StopRule(file) ==
    IF file.status = "completed" \/ file.status = "normalized" THEN file
    ELSE [file EXCEPT !.status = "stopped", !.progress = Some(0), !.newLUFS = None]

\* mutant: the reset keeps the loudness measured so far
ResetFileKeepsLUFS(file) ==
    [file EXCEPT !.status = "pending", !.progress = Some(0), !.newLUFS = None]

\* the reset of startProcessing (458-464)
ResetFile(file) ==
    [file EXCEPT !.status = "pending", !.progress = Some(0),
                 !.currentLUFS = None, !.newLUFS = None]

\* what a progress snapshot says about one file index: fileStatuses[index],
\* fileProgress[index] and currentFiles[index]?.currentLUFS, each possibly absent
Report(token, progress, reading) ==
    [token |-> token, progress |-> progress, reading |-> reading]

AbsentReport == Report("", None, None)

ReportAt(data, index) ==
    IF index <= Len(data.reports) THEN data.reports[index] ELSE AbsentReport

\* mutant: a Normalizing file is finalizing only above 0.95
MappedStatusAbove(file, report, isProcessingNow) ==
    LET fileProgress == IF Truthy(report.progress) THEN report.progress[1] ELSE 0
        fileStatus == IF report.token # "" THEN report.token ELSE "pending"
        realCurrentLUFS == OrElse(report.reading, file.currentLUFS)
    IN  CASE fileStatus = "Analyzing" -> "analyzing"
          [] fileStatus = "Normalizing" ->
                IF fileProgress > FinalizingAt THEN "finalizing" ELSE "processing"
          [] fileStatus = "completed" -> "completed"
          [] fileStatus = "error" -> "error"
          [] OTHER ->
                IF Truthy(realCurrentLUFS)
                THEN IF fileProgress > NormalizingAbove
                     THEN IF fileProgress >= FinalizingAt THEN "finalizing" ELSE "processing"
                     ELSE "analyzed"
                ELSE IF fileProgress > 0 THEN "analyzing" ELSE "pending"

\* mappedStatus of pollForUpdates (533-577); isProcessing is data.isProcessing
MappedStatus(file, report, isProcessingNow) ==
    LET fileProgress == IF Truthy(report.progress) THEN report.progress[1] ELSE 0
        fileStatus == IF report.token # "" THEN report.token ELSE "pending"
        realCurrentLUFS == OrElse(report.reading, file.currentLUFS)
    IN  CASE fileStatus = "Analyzing" -> "analyzing"
          [] fileStatus = "Normalizing" ->
                IF fileProgress >= FinalizingAt THEN "finalizing" ELSE "processing"
          [] fileStatus = "completed" -> "completed"
          [] fileStatus = "error" -> "error"
          [] OTHER ->
                IF Truthy(realCurrentLUFS)
                THEN IF fileProgress >= FullProgress /\ ~isProcessingNow THEN "normalized"
                     ELSE IF fileStatus = "Normalizing" \/ fileProgress > NormalizingAbove
                     THEN IF fileProgress >= FinalizingAt THEN "finalizing" ELSE "processing"
                     ELSE "analyzed"
                ELSE IF fileProgress > 0 THEN "analyzing" ELSE "pending"

\* mutant: the reading of the snapshot is stored as it comes, absent or not
PolledFileOverwrites(file, report, target) ==
    LET mappedStatus == MappedStatus(file, report, TRUE)
    IN  [file EXCEPT
           !.status = mappedStatus,
           !.progress = Some(IF Truthy(report.progress) THEN report.progress[1] ELSE 0),
           !.currentLUFS = report.reading,
           !.newLUFS = IF mappedStatus \in {"finalizing", "normalized", "completed"}
                       THEN Some(target) ELSE file.newLUFS]

\* the entry pollForUpdates writes while the run is active (533-586)
PolledFile(file, report, target) ==
    LET mappedStatus == MappedStatus(file, report, TRUE)
    IN  [file EXCEPT
           !.status = mappedStatus,
           !.progress = Some(IF Truthy(report.progress) THEN report.progress[1] ELSE 0),
           !.currentLUFS = OrElse(report.reading, file.currentLUFS),
           !.newLUFS = IF mappedStatus \in {"finalizing", "normalized", "completed"}
                       THEN Some(target) ELSE file.newLUFS]

\* data.processedFiles.find(pf => pf.name === file.name)?.currentLUFS
ProcessedLUFS(processedFiles, name) ==
    LET hits == {i \in 1..Len(processedFiles) : processedFiles[i].name = name}
    IN  IF hits = {} THEN None
        ELSE processedFiles[CHOOSE i \in hits : \A j \in hits : i <= j].currentLUFS

\* mutant: the processedFiles of the snapshot are not looked at
CompletedFileFallback(file, processedFiles, target) ==
    [file EXCEPT
       !.status = "completed",
       !.progress = Some(FullProgress),
       !.currentLUFS = OrElse(file.currentLUFS, Some(0)),
       !.newLUFS = Some(target)]

\* the entry pollForUpdates writes when the run has ended (489-513)
CompletedFile(file, processedFiles, target) ==
    [file EXCEPT
       !.status = "completed",
       !.progress = Some(FullProgress),
       !.currentLUFS =
           IF Len(processedFiles) > 0
           THEN OrElse(ProcessedLUFS(processedFiles, file.name),
                       OrElse(file.currentLUFS, Some(0)))
           ELSE OrElse(file.currentLUFS, Some(0)),
       !.newLUFS = Some(target)]

PollDelayMs == 250       \* setTimeout(pollForUpdates, 250)
ErrorDelayMs == 1000     \* setTimeout(pollForUpdates, 1000)

\* clearTimeout(pollingTimeoutRef.current) and setTimeout(pollForUpdates, delay) of
\* loop n (591-595, 600-603): the timer the ref names, if still pending, is
\* cancelled, and with it the loop that was waiting for it; delay is the delay
\* of the pending timer of a loop, 0 when it has none
Rescheduled(n, delay) ==
    [m \in 1..MaxStarts |->
        IF m = n THEN [poll[m] EXCEPT !.st = "waiting", !.delay = delay]
        ELSE IF m = pollingTimeoutRef /\ poll[m].st = "waiting"
        THEN [poll[m] EXCEPT !.st = "idle", !.delay = 0]
        ELSE poll[m]]

notSession ==
    <<quotaVars, lastAdmit, licenseVars, now, actReq, lastAct, historyVars, lifeVars>>
notRun == <<notSession, beLevel>>

RunRecord(op, outcome) == [op |-> op, outcome |-> outcome,
                           before |-> Statuses(audioFiles), found |-> audioFiles,
                           forced |-> stopForced]

\* the same for a progress response: the snapshot it carried and the target the
\* closure of the loop holds
PollRecord(outcome, n, data) ==
    [op |-> "progress-response", outcome |-> outcome,
     before |-> Statuses(audioFiles), found |-> audioFiles, forced |-> stopForced,
     data |-> data, target |-> poll[n].targetLUFS]

MsgAddFiles == "Please add audio files first"

\* a step that ends in alert(msg)
AlertRecord(op, outcome, msg) ==
    [op |-> op, outcome |-> outcome, before |-> Statuses(audioFiles),
     found |-> audioFiles, forced |-> stopForced, alert |-> msg]

\* mutant: the test for an empty list is missing
NoFilesToProcessNever == FALSE

\* audioFiles.length === 0 (446)
NoFilesToProcess == Len(audioFiles) = 0

\* startProcessing up to its await (445-476)
startProcessing ==
    /\ nStarts < MaxStarts
    /\ IF NoFilesToProcess
       THEN /\ lastRun' = AlertRecord("startProcessing", "empty", MsgAddFiles)
            /\ UNCHANGED <<audioFiles, isProcessing, shouldStopPolling, poll, nStarts,
                           stopForced>>
       ELSE /\ shouldStopPolling' = FALSE
            /\ isProcessing' = TRUE
            /\ audioFiles' = [i \in 1..Len(audioFiles) |-> ResetFile(audioFiles[i])]
            /\ nStarts' = nStarts + 1
            /\ poll' = [poll EXCEPT ![nStarts + 1] =
                            [st |-> "starting", targetLUFS |-> targetLUFS, delay |-> 0,
                             snap |-> 0]]
            /\ stopForced' = FALSE
            /\ lastRun' = RunRecord("startProcessing", "sent")
    /\ UNCHANGED <<targetLUFS, pollingTimeoutRef, stops, statusReq, beProcessing, notRun>>

\* the Start face of the start/stop button (950-957)
ClickStart == ~isProcessing /\ Len(audioFiles) # 0 /\ startProcessing

\* mutant: the catch block of startProcessing leaves the processing flag set
StartFailedKeepsFlag(n) ==
    /\ poll' = [poll EXCEPT ![n].st = "idle"]
    /\ UNCHANGED isProcessing

\* the catch block of startProcessing (609-612): pollForUpdates is never called
StartFailed(n) ==
    /\ poll' = [poll EXCEPT ![n].st = "idle"]
    /\ isProcessing' = FALSE

\* POST /process answers and pollForUpdates() is called, or the request throws
\* (470-480, 607-612)
ProcessResponse(n, ok) ==
    /\ poll[n].st = "starting"
    /\ IF ok
       THEN /\ poll' = [poll EXCEPT ![n].st = "fetching"]
            /\ beProcessing' = TRUE
            /\ beLevel' = 0
            /\ UNCHANGED isProcessing
       ELSE /\ StartFailed(n)
            /\ UNCHANGED <<beProcessing, beLevel>>
    /\ lastRun' = RunRecord("process-response", IF ok THEN "ok" ELSE "error")
    /\ UNCHANGED <<audioFiles, shouldStopPolling, targetLUFS, pollingTimeoutRef, nStarts,
                   stops, statusReq, stopForced, notSession>>

\* mutant: the next cycle is scheduled as soon as the answer is there, before
\* pollForUpdates has processed it
ProgressAnsweredSchedules(n) ==
    /\ poll[n].st = "fetching"
    /\ poll' = Rescheduled(n, PollDelayMs)
    /\ pollingTimeoutRef' = n
    /\ lastRun' = NoRun
    /\ UNCHANGED <<audioFiles, isProcessing, shouldStopPolling, targetLUFS,
                   nStarts, stops, statusReq, beProcessing, stopForced, notRun>>

\* the backend builds the answer to GET /progress of loop n from its state of
\* that moment
ProgressAnswered(n) ==
    /\ poll[n].st = "fetching"
    /\ poll' = [poll EXCEPT ![n].st = IF beProcessing THEN "answered-active"
                                        ELSE "answered-ended",
                            ![n].snap = beLevel]
    /\ lastRun' = NoRun
    /\ UNCHANGED <<audioFiles, isProcessing, shouldStopPolling, targetLUFS,
                   pollingTimeoutRef, nStarts, stops, statusReq, beProcessing, stopForced,
                   notRun>>

\* the answer reaches pollForUpdates of loop n while the run is active (517-596)
ProgressActive(n, data) ==
    /\ poll[n].st = "answered-active"
    /\ audioFiles' = [i \in 1..Len(audioFiles) |->
                         PolledFile(audioFiles[i], ReportAt(data, i), poll[n].targetLUFS)]
    /\ poll' = Rescheduled(n, PollDelayMs)
    /\ pollingTimeoutRef' = n
    /\ lastRun' = PollRecord("active", n, data)
    /\ UNCHANGED <<isProcessing, shouldStopPolling, targetLUFS, nStarts, stops, statusReq,
                   beProcessing, stopForced, notRun>>

\* the answer reaches pollForUpdates of loop n after the run has ended (489-515)
ProgressEnded(n, processedFiles) ==
    /\ poll[n].st = "answered-ended"
    /\ isProcessing' = FALSE
    /\ audioFiles' = [i \in 1..Len(audioFiles) |->
                         CompletedFile(audioFiles[i], processedFiles, poll[n].targetLUFS)]
    /\ poll' = [poll EXCEPT ![n].st = "idle"]
    /\ lastRun' = PollRecord("ended", n, processedFiles)
    /\ UNCHANGED <<shouldStopPolling, targetLUFS, pollingTimeoutRef, nStarts, stops,
                   statusReq, beProcessing, stopForced, notRun>>

\* mutant: the catch block sets no timer
ProgressFailedGivesUp(n) == [poll EXCEPT ![n].st = "idle"]

\* mutant: the catch block retries after the delay of a successful poll
ProgressFailedSoon(n) == Rescheduled(n, PollDelayMs)

\* the catch block of pollForUpdates (597-604)
ProgressFailed(n) == Rescheduled(n, ErrorDelayMs)

\* GET /progress of loop n throws (597-604)
ProgressError(n) ==
    /\ poll[n].st \in {"fetching", "answered-active", "answered-ended"}
    /\ poll' = ProgressFailed(n)
    /\ pollingTimeoutRef' = n
    /\ lastRun' = RunRecord("progress-response", "error")
    /\ UNCHANGED <<audioFiles, isProcessing, shouldStopPolling, targetLUFS, nStarts,
                   stops, statusReq, beProcessing, stopForced, notRun>>

\* the timer of loop n fires: pollForUpdates runs and sends GET /progress (481-484)
PollTimerFires(n) ==
    /\ poll[n].st = "waiting"
    /\ poll' = [poll EXCEPT ![n].st = "fetching", ![n].delay = 0]
    /\ lastRun' = NoRun
    /\ UNCHANGED <<audioFiles, isProcessing, shouldStopPolling, targetLUFS,
                   pollingTimeoutRef, nStarts, stops, statusReq, beProcessing, stopForced,
                   notRun>>

\* stopProcessing up to its await (403-412)
stopProcessing ==
    /\ stops < MaxStops
    /\ shouldStopPolling' = TRUE
    /\ isProcessing' = FALSE
    /\ stops' = stops + 1
    /\ lastRun' = RunRecord("stopProcessing", "sent")
    /\ UNCHANGED <<audioFiles, targetLUFS, pollingTimeoutRef, poll, nStarts, statusReq,
                   beProcessing, stopForced, notRun>>

\* the Stop face of the start/stop button (950-957)
ClickStop == isProcessing /\ stopProcessing

StopOutcomes == {"success", "refused", "error"}

\* POST /stop answers with success true or false, or throws (412-442)
StopResponse(outcome) ==
    /\ stops > 0
    /\ stops' = stops - 1
    /\ IF outcome = "error"
       THEN /\ shouldStopPolling' = TRUE
            /\ isProcessing' = FALSE
            /\ UNCHANGED <<audioFiles, stopForced, beProcessing>>
       ELSE /\ audioFiles' = [i \in 1..Len(audioFiles) |-> StopRule(audioFiles[i])]
            /\ stopForced' = TRUE
            /\ beProcessing' = IF outcome = "success" THEN FALSE ELSE beProcessing
            /\ UNCHANGED <<shouldStopPolling, isProcessing>>
    /\ lastRun' = RunRecord("stop-response", outcome)
    /\ UNCHANGED <<targetLUFS, pollingTimeoutRef, poll, nStarts, statusReq, notRun>>

\* the backend finishes its run, or stops it on a request whose answer is lost
BackendEnds ==
    /\ beProcessing
    /\ beProcessing' = FALSE
    /\ lastRun' = NoRun
    /\ UNCHANGED <<audioFiles, isProcessing, shouldStopPolling, targetLUFS,
                   pollingTimeoutRef, poll, nStarts, stops, statusReq, stopForced, notRun>>

\* the backend's run comes one step further; it starts again from 0 with every
\* process request (ProcessResponse) and never goes back within a run
BackendAdvances ==
    /\ beProcessing
    /\ beLevel < MaxLevel
    /\ beLevel' = beLevel + 1
    /\ lastRun' = NoRun
    /\ UNCHANGED <<audioFiles, isProcessing, shouldStopPolling, targetLUFS,
                   pollingTimeoutRef, poll, nStarts, stops, statusReq, beProcessing,
                   stopForced, notSession>>

\* the snapshot the backend builds at a level: every file has come equally far
SnapshotAt(level) ==
    [reports |->
        [i \in 1..MaxRunFiles |->
            Report(IF level = 0 THEN "Analyzing" ELSE "Normalizing",
                   Some(LevelStep * level), Some(-9))]]

\* the answer of loop n, as the backend built it, reaches pollForUpdates
ProgressSnapshot(n) == ProgressActive(n, SnapshotAt(poll[n].snap))

\* checkBackendStatus sends GET /status, at mount and every 2 s (173-175, 346-348);
\* the backend answers with its state of that moment
StatusSent ==
    /\ statusReq = "none"
    /\ statusReq' = IF beProcessing THEN "active" ELSE "idle"
    /\ lastRun' = NoRun
    /\ UNCHANGED <<audioFiles, isProcessing, shouldStopPolling, targetLUFS,
                   pollingTimeoutRef, poll, nStarts, stops, beProcessing, stopForced,
                   notRun>>

\* the answer arrives (349-350), or the request throws (351-354)
StatusResponse(ok) ==
    /\ statusReq # "none"
    /\ statusReq' = "none"
    /\ isProcessing' = IF ok THEN statusReq = "active" ELSE isProcessing
    /\ lastRun' = RunRecord("status-response", IF ok THEN statusReq ELSE "error")
    /\ UNCHANGED <<audioFiles, shouldStopPolling, targetLUFS, pollingTimeoutRef, poll,
                   nStarts, stops, beProcessing, stopForced, notRun>>

(***************************************************************************)
(* Ref synchronisation effects and clearFiles                              *)
(***************************************************************************)
notQuota == <<runVars, licenseVars, now, actReq, lastAct, historyVars>>
refVars == <<audioFilesRef, licenseInfoRef, remainingTrialFilesRef>>

\* the three effects that copy state into the refs (310-320); React runs the
\* pending effects of a commit together, some time after the state update
SyncRefs ==
    /\ <<audioFilesRef, licenseInfoRef, remainingTrialFilesRef>>
           # <<audioFiles, licenseInfo, remainingTrialFiles>>
    /\ audioFilesRef' = audioFiles
    /\ licenseInfoRef' = licenseInfo
    /\ remainingTrialFilesRef' = remainingTrialFiles
    /\ lastAdmit' = NoAdmit
    /\ UNCHANGED <<audioFiles, showUpgradeModal, notQuota>>

\* a files-selected event of the bridge is handled (218-250)
OnFilesSelected(filePaths) ==
    /\ FilesSelected(filePaths)
    /\ UNCHANGED <<refVars, notQuota>>

\* a file-dropped event of the bridge is handled (267-288)
OnFileDropped(filePath) ==
    /\ FileDropped(filePath)
    /\ UNCHANGED <<refVars, notQuota>>

\* mutant: clearFiles removes the last entry only
clearFilesLast ==
    /\ ~isProcessing
    /\ audioFiles' = SubSeq(audioFiles, 1, Len(audioFiles) - 1)
    /\ lastAdmit' = NoAdmit
    /\ UNCHANGED <<quotaVars, notQuota>>

\* clearFiles (615-617), behind a button that is disabled while processing (960-962)
clearFiles ==
    /\ ~isProcessing
    /\ audioFiles' = <<>>
    /\ lastAdmit' = NoAdmit
    /\ UNCHANGED <<quotaVars, notQuota>>

(***************************************************************************)
(* Life cycle: the mount effect, its cleanup and the unmount cleanup       *)
(***************************************************************************)
MaxMounts == 2           \* instances of the component in one behaviour

DefaultTargetLUFS == -12    \* useState<number>(-12)

TrialCheckMs == 5000     \* return 5000
ProCheckMs == 30000      \* return 30000

Instances == 1..MaxMounts

Channels ==
    {"files-selected", "output-folder-selected", "default-output-folder-selected",
     "file-dropped"}

NoListeners == [ch \in Channels |-> 0]

\* removeAllListeners of the mount effect (213-215)
RemovedAtMount == {"files-selected", "output-folder-selected", "file-dropped"}

\* removeAllListeners of the cleanup (301-304)
RemovedAtCleanup == Channels

\* the bridge part of the mount effect (209-289): three channels are emptied,
\* then ipcRenderer.on adds one listener to each of the four
ListenersAfterMount(ls) ==
    [ch \in Channels |-> (IF ch \in RemovedAtMount THEN 0 ELSE ls[ch]) + 1]

\* mutant: the cleanup removes the channels the mount effect removes
ListenersAfterCleanupAsMount(ls) ==
    [ch \in Channels |-> IF ch \in RemovedAtMount THEN 0 ELSE ls[ch]]

\* the bridge part of the cleanup (299-305)
ListenersAfterCleanup(ls) ==
    [ch \in Channels |-> IF ch \in RemovedAtCleanup THEN 0 ELSE ls[ch]]

\* the first instance after its mount effect (172-289): the status interval is
\* set, the cadence lookup is out, the listeners are on
FirstMount ==
    /\ mounted = TRUE
    /\ mounts = 1
    /\ listeners = ListenersAfterMount(NoListeners)
    /\ statusInterval = [k \in Instances |-> k = 1]
    /\ licenseIntervalRef = [k \in Instances |-> 0]
    /\ cadence = [k \in Instances |-> IF k = 1 THEN "pending" ELSE "none"]

StrProOffline == StrPro \o <<" ", "(", "O", "f", "f", "l", "i", "n", "e", ")">>

\* getLicenseCheckInterval (178-195) on the answer of GET /license/status
getLicenseCheckInterval(resp) ==
    IF resp.kind = "ok"
    THEN IF resp.license.status = StrPro \/ resp.license.status = StrProOffline
         THEN ProCheckMs
         ELSE TrialCheckMs
    ELSE TrialCheckMs

\* what GET /license/status comes back with from a backend whose license is of
\* tier beTier, when the request gets through and when it does not
BackendLicenseResponses ==
    {[kind |-> "ok",
      license |-> IF beTier = "paid" THEN License(StrPro, 0)
                  ELSE License(StrTrial, MaxQuota)],
     [kind |-> "error"]}

\* the promise of getLicenseCheckInterval() of instance k resolves with ms, and
\* its callback runs (178-206), whether the instance is still mounted or not
CadenceAnswered(k, ms) ==
    /\ cadence[k] = "pending"
    /\ cadence' = [cadence EXCEPT ![k] = "done"]
    /\ licenseIntervalRef' = [licenseIntervalRef EXCEPT ![k] = ms]
    /\ lastRun' = NoRun
    /\ lastAdmit' = NoAdmit
    /\ UNCHANGED <<audioFiles, isProcessing, shouldStopPolling, targetLUFS,
                   pollingTimeoutRef, poll, nStarts, stops, statusReq, beProcessing,
                   beLevel, stopForced, quotaVars, licenseVars, now, actReq, lastAct,
                   historyVars, mounted, mounts, listeners, statusInterval>>

\* the component is unmounted: the cleanup of the unmount effect (104-120) and
\* the cleanup of the mount effect (291-306)
Unmount ==
    /\ mounted
    /\ mounted' = FALSE
    /\ poll' = [m \in 1..MaxStarts |->
                   IF m = pollingTimeoutRef /\ poll[m].st = "waiting"
                   THEN [poll[m] EXCEPT !.st = "idle", !.delay = 0]
                   ELSE poll[m]]
    /\ pollingTimeoutRef' = 0
    /\ isProcessing' = FALSE
    /\ statusInterval' = [statusInterval EXCEPT ![mounts] = FALSE]
    /\ licenseIntervalRef' = [licenseIntervalRef EXCEPT ![mounts] = 0]
    /\ listeners' = ListenersAfterCleanup(listeners)
    /\ lastRun' = NoRun
    /\ lastAdmit' = NoAdmit
    /\ UNCHANGED <<audioFiles, shouldStopPolling, targetLUFS, nStarts, stops, statusReq,
                   beProcessing, beLevel, stopForced, quotaVars, licenseVars, now, actReq,
                   lastAct, historyVars, mounts, cadence>>

\* the component is mounted again, once the requests and loops of the instance
\* before it have come to rest: a new instance with the initial values of its
\* state and refs (45-92), whose mount effect runs (172-289); ipcRenderer and
\* the backend are the ones of before
Mount ==
    /\ ~mounted
    /\ mounts < MaxMounts
    /\ \A n \in 1..MaxStarts : poll[n].st = "idle"
    /\ stops = 0 /\ statusReq = "none" /\ actReq = None
    /\ mounted' = TRUE
    /\ mounts' = mounts + 1
    /\ listeners' = ListenersAfterMount(listeners)
    /\ statusInterval' = [statusInterval EXCEPT ![mounts + 1] = TRUE]
    /\ cadence' = [cadence EXCEPT ![mounts + 1] = "pending"]
    /\ audioFiles' = <<>>
    /\ audioFilesRef' = <<>>
    /\ isProcessing' = FALSE
    /\ shouldStopPolling' = FALSE
    /\ targetLUFS' = DefaultTargetLUFS
    /\ pollingTimeoutRef' = 0
    /\ stopForced' = FALSE
    /\ licenseInfo' = None
    /\ licenseInfoRef' = None
    /\ remainingTrialFiles' = InitialRemaining
    /\ remainingTrialFilesRef' = InitialRemaining
    /\ showUpgradeModal' = FALSE
    /\ showTrialExpired' = FALSE
    /\ licenseKey' = <<>>
    /\ isActivating' = FALSE
    /\ activationError' = MsgNone
    /\ activationAttempts' = 0
    /\ lockoutUntil' = 0
    /\ lockoutCountdown' = 0
    /\ showSettings' = FALSE
    /\ showDeactivationModal' = FALSE
    /\ activateEnabled' = FALSE
    /\ failedInARow' = 0
    /\ thirdFailureAt' = 0
    /\ UNCHANGED beTier
    /\ lastRun' = NoRun
    /\ lastAdmit' = NoAdmit
    /\ lastAct' = NoAct
    /\ UNCHANGED <<poll, nStarts, stops, statusReq, beProcessing, beLevel, now, actReq,
                   licenseIntervalRef>>

\* the interval of checkBackendStatus of a live instance fires (175)
StatusIntervalFires ==
    /\ \E k \in Instances : statusInterval[k]
    /\ StatusSent

(***************************************************************************)
(* Initial state: the component as constructed, with its mount effect run  *)
(***************************************************************************)
\* files is the list admitted so far
Mounted(files) ==
    /\ audioFiles = files
    /\ isProcessing = FALSE
    /\ shouldStopPolling = FALSE
    /\ targetLUFS = DefaultTargetLUFS
    /\ pollingTimeoutRef = 0
    /\ poll = [n \in 1..MaxStarts |->
                  [st |-> "idle", targetLUFS |-> DefaultTargetLUFS, delay |-> 0,
                   snap |-> 0]]
    /\ nStarts = 0
    /\ stops = 0
    /\ statusReq = "none"
    /\ beProcessing = FALSE
    /\ stopForced = FALSE
    /\ beLevel = 0
    /\ lastRun = NoRun
    /\ audioFilesRef = files
    /\ licenseInfo = None
    /\ licenseInfoRef = None
    /\ remainingTrialFiles = InitialRemaining
    /\ remainingTrialFilesRef = InitialRemaining
    /\ showUpgradeModal = FALSE
    /\ showTrialExpired = FALSE
    /\ lastAdmit = NoAdmit
    /\ now = 0
    /\ licenseKey = <<>>
    /\ isActivating = FALSE
    /\ activationError = MsgNone
    /\ activationAttempts = 0
    /\ lockoutUntil = 0
    /\ lockoutCountdown = 0
    /\ showSettings = FALSE
    /\ showDeactivationModal = FALSE
    /\ activateEnabled = FALSE
    /\ actReq = None
    /\ lastAct = NoAct
    /\ failedInARow = 0
    /\ thirdFailureAt = 0
    /\ beTier = "trial"
    /\ FirstMount

Init == Mounted(<<>>)

vars ==
    <<audioFiles, runVars, quotaVars, lastAdmit, licenseVars, now, actReq, lastAct,
      historyVars>>

(***************************************************************************)
(* The quota guard: bridge events against the license snapshot             *)
(***************************************************************************)
NextQuota ==
    \/ \E filePaths \in Offers : OnFilesSelected(filePaths)
    \/ \E filePath \in Paths : OnFileDropped(filePath)
    \/ SyncRefs
    \/ \E resp \in LicenseResponses : LicenseRefresh(resp)
    \/ clearFiles

\* the activation protocol reads the tier of the license, not the quota
TierResponses ==
    {resp \in LicenseResponses :
        resp.kind = "ok" /\ resp.license.remaining_trial_files = 0}

\* keys that differ in what the protocol does with them
TypedKeys == {<<>>, KeyShort, KeyGood, KeyPadded}

SpecQuota == Init /\ [][NextQuota]_vars

(***************************************************************************)
(* The activation protocol behind the controls of the dialogs              *)
(***************************************************************************)
NextAct ==
    \/ ClickActivate
    \/ \E outcome \in Outcomes : ActivateResponse(outcome)
    \/ \E resp \in TierResponses : ActivateRefreshed(resp)
    \/ \E resp \in TierResponses : LicenseRefresh(resp)
    \/ CountdownTick
    \/ OpenSettings
    \/ CloseSettings
    \/ \E key \in TypedKeys : EditKey(key)
    \/ EnterLicense
    \/ CloseTrialExpired
    \/ Rerender
    \/ Tick

SpecAct == Init /\ [][NextAct]_vars

(***************************************************************************)
(* The activation protocol together with deactivation                      *)
(***************************************************************************)
NextLic ==
    \/ NextAct
    \/ OpenDeactivation
    \/ CloseDeactivation
    \/ ClickDeactivate
    \/ \E outcome \in Outcomes : DeactivateResponse(outcome)
    \/ \E resp \in TierResponses : DeactivateRefreshed(resp)

SpecLic == Init /\ [][NextLic]_vars

(***************************************************************************)
(* A processing session: files already admitted, then start, stop and the  *)
(* poll loops against the backend                                          *)
(***************************************************************************)
RunLists ==
    {[i \in 1..k |-> IF i % 2 = 1 THEN PathA ELSE PathB] : k \in 1..MaxRunFiles}

InitRun == \E paths \in RunLists : Mounted(NewAudioFiles(paths))

\* what the backend reports about a file while a run is active
RunReports ==
    {Report("Analyzing", Some(30), None),
     Report("Normalizing", Some(97), Some(-9))}

RunData == {[reports |-> r] : r \in [1..MaxRunFiles -> RunReports]}

\* and its processedFiles once the run has ended
RunProcessedFiles == {<<>>, <<[name |-> NewAudioFile(PathA).name, currentLUFS |-> Some(-9)]>>}

NextRun ==
    \/ ClickStart
    \/ \E n \in 1..MaxStarts, ok \in BOOLEAN : ProcessResponse(n, ok)
    \/ \E n \in 1..MaxStarts : ProgressAnswered(n)
    \/ \E n \in 1..MaxStarts, data \in RunData : ProgressActive(n, data)
    \/ \E n \in 1..MaxStarts, pf \in RunProcessedFiles : ProgressEnded(n, pf)
    \/ \E n \in 1..MaxStarts : ProgressError(n)
    \/ \E n \in 1..MaxStarts : PollTimerFires(n)
    \/ ClickStop
    \/ \E outcome \in StopOutcomes : StopResponse(outcome)
    \/ BackendEnds
    \/ StatusSent
    \/ \E ok \in BOOLEAN : StatusResponse(ok)

SpecRun == InitRun /\ [][NextRun]_vars

(***************************************************************************)
(* Runs that are left to end, watched through every kind of snapshot       *)
(***************************************************************************)
\* fileStatuses[index]: absent, the four tokens the switch knows, and another
PollTokens == {"", "Analyzing", "Normalizing", "completed", "error", "Queued"}

\* fileProgress[index]: absent, and values on and between the thresholds
PollProgress == {None, Some(50), Some(60), Some(95), Some(100)}

\* currentFiles[index]?.currentLUFS: absent, 0 and a reading
PollReadings == {None, Some(0), Some(-9)}

PollReports ==
    {Report(token, progress, reading) :
        token \in PollTokens, progress \in PollProgress, reading \in PollReadings}

\* the first file gets every report, a second file those of SpecRun
PollData == {[reports |-> <<r1, r2>>] : r1 \in PollReports, r2 \in RunReports}

PollProcessedFiles ==
    LET a == NewAudioFile(PathA).name
        b == NewAudioFile(PathB).name
    IN  {<<>>,
         <<[name |-> a, currentLUFS |-> Some(-9)]>>,
         <<[name |-> a, currentLUFS |-> Some(0)]>>,
         <<[name |-> a, currentLUFS |-> None]>>,
         <<[name |-> b, currentLUFS |-> Some(-7)]>>,
         <<[name |-> b, currentLUFS |-> Some(-7)], [name |-> a, currentLUFS |-> Some(-9)]>>,
         <<[name |-> a, currentLUFS |-> Some(-9)], [name |-> a, currentLUFS |-> Some(-7)]>>}

NextPoll ==
    \/ ClickStart
    \/ \E n \in 1..MaxStarts : ProcessResponse(n, TRUE)
    \/ \E n \in 1..MaxStarts : ProgressAnswered(n)
    \/ \E n \in 1..MaxStarts, data \in PollData : ProgressActive(n, data)
    \/ \E n \in 1..MaxStarts, pf \in PollProcessedFiles : ProgressEnded(n, pf)
    \/ \E n \in 1..MaxStarts : PollTimerFires(n)
    \/ BackendEnds

SpecPoll == InitRun /\ [][NextPoll]_vars

(***************************************************************************)
(* Sessions of runs that are stopped and started again, with files that    *)
(* complete or fail one by one; every request gets through                 *)
(***************************************************************************)
SessionReports ==
    RunReports \cup {Report("completed", Some(100), Some(-9)), Report("error", None, None)}

SessionData == {[reports |-> r] : r \in [1..MaxRunFiles -> SessionReports]}

NextSession ==
    \/ ClickStart
    \/ \E n \in 1..MaxStarts : ProcessResponse(n, TRUE)
    \/ \E n \in 1..MaxStarts : ProgressAnswered(n)
    \/ \E n \in 1..MaxStarts, data \in SessionData : ProgressActive(n, data)
    \/ \E n \in 1..MaxStarts, pf \in RunProcessedFiles : ProgressEnded(n, pf)
    \/ \E n \in 1..MaxStarts : PollTimerFires(n)
    \/ BackendEnds
    \/ ClickStop
    \/ \E outcome \in StopOutcomes : StopResponse(outcome)

SpecSession == InitRun /\ [][NextSession]_vars

(***************************************************************************)
(* Runs whose requests can fail, under the scheduling the event loop and   *)
(* the backend give: a timer that is set fires, a fetch that is repeated   *)
(* is answered and gets through at last, and a backend run ends            *)
(***************************************************************************)
LiveData == {[reports |-> [i \in 1..MaxRunFiles |-> Report("Normalizing", Some(97), Some(-9))]]}

\* the answer of GET /progress reaches pollForUpdates of loop n
ProgressDelivered(n) ==
    \/ \E data \in LiveData : ProgressActive(n, data)
    \/ \E pf \in RunProcessedFiles : ProgressEnded(n, pf)

NextLive ==
    \/ ClickStart
    \/ \E n \in 1..MaxStarts, ok \in BOOLEAN : ProcessResponse(n, ok)
    \/ \E n \in 1..MaxStarts : ProgressAnswered(n)
    \/ \E n \in 1..MaxStarts : ProgressDelivered(n)
    \/ \E n \in 1..MaxStarts : ProgressError(n)
    \/ \E n \in 1..MaxStarts : PollTimerFires(n)
    \/ ClickStop
    \/ \E outcome \in StopOutcomes : StopResponse(outcome)
    \/ BackendEnds

LiveFairness ==
    /\ \A n \in 1..MaxStarts : WF_vars(PollTimerFires(n))
    /\ \A n \in 1..MaxStarts : SF_vars(ProgressAnswered(n))
    /\ \A n \in 1..MaxStarts : SF_vars(ProgressDelivered(n))
    /\ WF_vars(BackendEnds)

SpecLive == InitRun /\ [][NextLive]_vars /\ LiveFairness

(***************************************************************************)
(* The session store over its whole life: files are admitted and cleared   *)
(* between and during runs, and startProcessing is called in any state     *)
(***************************************************************************)
\* what the file dialog offers: two different paths at once
StoreOffers == {r \in Offers : Len(r) = MaxOffered /\ r[1] # r[2]}

\* no license snapshot has arrived, so the bridge handlers do not read the refs
NextStore ==
    \/ \E filePaths \in StoreOffers : OnFilesSelected(filePaths)
    \/ OnFileDropped(PathA)
    \/ clearFiles
    \/ startProcessing
    \/ \E n \in 1..MaxStarts : ProcessResponse(n, TRUE)
    \/ \E n \in 1..MaxStarts : ProgressAnswered(n)
    \/ \E n \in 1..MaxStarts : ProgressDelivered(n)
    \/ \E n \in 1..MaxStarts : PollTimerFires(n)
    \/ ClickStop
    \/ \E outcome \in StopOutcomes : StopResponse(outcome)
    \/ BackendEnds

SpecStore == Init /\ [][NextStore]_vars

(***************************************************************************)
(* Runs against a backend whose reported progress only grows within a run  *)
(***************************************************************************)
NextMono ==
    \/ ClickStart
    \/ \E n \in 1..MaxStarts : ProcessResponse(n, TRUE)
    \/ \E n \in 1..MaxStarts : ProgressAnswered(n)
    \/ \E n \in 1..MaxStarts : ProgressSnapshot(n)
    \/ \E n \in 1..MaxStarts, pf \in RunProcessedFiles : ProgressEnded(n, pf)
    \/ \E n \in 1..MaxStarts : PollTimerFires(n)
    \/ BackendAdvances
    \/ BackendEnds
    \/ ClickStop
    \/ \E outcome \in StopOutcomes : StopResponse(outcome)

SpecMono == InitRun /\ [][NextMono]_vars

(***************************************************************************)
(* One instance of the component from its mount to after its unmount, with *)
(* the requests it has sent still answered afterwards                      *)
(***************************************************************************)
CheckIntervals == {TrialCheckMs, ProCheckMs}

\* the controls exist while the component is mounted; a state update of an
\* unmounted instance is not rendered, its timers run all the same
NextUnmount ==
    \/ mounted /\ ClickStart
    \/ \E n \in 1..MaxStarts : ProcessResponse(n, TRUE)
    \/ \E n \in 1..MaxStarts : ProgressAnswered(n)
    \/ \E n \in 1..MaxStarts : ProgressDelivered(n)
    \/ \E n \in 1..MaxStarts : ProgressError(n)
    \/ \E n \in 1..MaxStarts : PollTimerFires(n)
    \/ BackendEnds
    \/ StatusIntervalFires
    \/ \E ok \in BOOLEAN : mounted /\ StatusResponse(ok)
    \/ \E k \in Instances, ms \in CheckIntervals : CadenceAnswered(k, ms)
    \/ Unmount

SpecUnmount == InitRun /\ [][NextUnmount]_vars

(***************************************************************************)
(* The component mounted and unmounted in turn inside Electron, with the   *)
(* bridge sending its events to the listeners there are                    *)
(***************************************************************************)
\* EventEmitter.emit calls every listener of the channel once
Handlings(ch) == listeners[ch]

NextMount ==
    \/ Mount
    \/ Unmount
    \/ \E k \in Instances, ms \in CheckIntervals : CadenceAnswered(k, ms)
    \/ \E filePaths \in StoreOffers :
           Handlings("files-selected") > 0 /\ OnFilesSelected(filePaths)
    \/ Handlings("file-dropped") > 0 /\ OnFileDropped(PathA)
    \/ mounted /\ SyncRefs
    \/ mounted /\ clearFiles

SpecMount == Init /\ [][NextMount]_vars

(***************************************************************************)
(* The same protocol with activateLicense also called directly, in any     *)
(* state and with any key, as a caller other than the button could         *)
(***************************************************************************)
NextActCall ==
    \/ NextAct
    \/ activateLicense
    \/ \E key \in Keys : EditKey(key)

SpecActCall == Init /\ [][NextActCall]_vars

(***************************************************************************)
(* The license refresh interval of a mounted component while the license   *)
(* of the backend is activated and deactivated                             *)
(***************************************************************************)
NextCadence ==
    \/ \E k \in Instances, resp \in BackendLicenseResponses :
           CadenceAnswered(k, getLicenseCheckInterval(resp))
    \/ \E resp \in BackendLicenseResponses : LicenseRefresh(resp)
    \/ OpenSettings
    \/ EditKey(KeyGood)
    \/ ClickActivate
    \/ \E outcome \in {"success", "rejected"} : ActivateResponse(outcome)
    \/ \E resp \in BackendLicenseResponses : ActivateRefreshed(resp)
    \/ OpenDeactivation
    \/ ClickDeactivate
    \/ \E outcome \in {"success", "rejected"} : DeactivateResponse(outcome)
    \/ \E resp \in BackendLicenseResponses : DeactivateRefreshed(resp)

SpecCadence == Init /\ [][NextCadence]_vars

(***************************************************************************)
(* activateLicense called with keys on both sides of the format check      *)
(***************************************************************************)
NextFormat ==
    \/ OpenSettings
    \/ CloseSettings
    \/ \E key \in FormatKeys : EditKey(key)
    \/ activateLicense
    \/ \E outcome \in Rejections : ActivateResponse(outcome)

SpecFormat == Init /\ [][NextFormat]_vars

(***************************************************************************)
(* Quota guard properties                                                  *)
(***************************************************************************)
(* Claims about the session controller and the progress poller             *)
(***************************************************************************)
LivePollLoops ==
    {n \in 1..MaxStarts :
        poll[n].st \in {"fetching", "answered-active", "answered-ended", "waiting"}}

PendingPollTimers == {n \in 1..MaxStarts : poll[n].st = "waiting"}

\* C1: when a stop request has been answered or has failed, every file that
\* was not completed or normalized is stopped with progress 0, and the others
\* are as they were, whatever the outcome of the request.
C1_StopForcesStatuses ==
    lastRun.op = "stop-response" =>
        \A i \in 1..Len(audioFiles) :
            IF lastRun.before[i] \in {"completed", "normalized"}
            THEN audioFiles[i].status = lastRun.before[i]
            ELSE audioFiles[i].status = "stopped" /\ audioFiles[i].progress = Some(0)

\* C2: once stopProcessing has forced the statuses, and until the next
\* startProcessing, a progress response leaves every file's status as it was.
C2_NoChangeAfterForcedStop ==
    (lastRun.op = "progress-response" /\ lastRun.forced) =>
        Statuses(audioFiles) = lastRun.before

\* C3: right after startProcessing or stopProcessing no poll timer is pending,
\* and at any time at most one progress fetch is in flight or poll timer is
\* scheduled in total.
C3_OnePollLoop ==
    /\ lastRun.op \in {"startProcessing", "stopProcessing"} => PendingPollTimers = {}
    /\ Cardinality(LivePollLoops) <= 1

(***************************************************************************)
AdmitIsTrial ==
    /\ lastAdmit.license # None
    /\ StartsWith(lastAdmit.license[1].status, <<"T", "r", "i", "a", "l">>)

AdmitSlots == Max(0, lastAdmit.r - lastAdmit.c)

AppendedPaths == [i \in 1..Len(lastAdmit.appended) |-> lastAdmit.appended[i].path]

\* C4: under a trial snapshot with remaining quota r and file count c, a
\* files-selected event offering n paths appends exactly the first
\* min(n, max(0, r - c)) offered paths, in their order, after the existing entries.
C4_TrialAdmitsPrefix ==
    (lastAdmit.op = "files-selected" /\ AdmitIsTrial) =>
        /\ lastAdmit.kept
        /\ AppendedPaths =
              SubSeq(lastAdmit.offered, 1, Min(Len(lastAdmit.offered), AdmitSlots))

\* a trial snapshot with one slot left was offered two paths and took the first
C4_Witness ==
    /\ lastAdmit.op = "files-selected"
    /\ AdmitIsTrial
    /\ Len(lastAdmit.offered) = 2
    /\ lastAdmit.offered[1] # lastAdmit.offered[2]
    /\ AdmitSlots = 1
    /\ lastAdmit.c = 1
    /\ Len(audioFiles) = 2
    /\ audioFiles[2].path = lastAdmit.offered[1]

\* C5: when the license status does not start with the trial marker, every
\* offered path of a files-selected or file-dropped event is appended to the list,
\* whatever the file count and the stored quota number.
C5_PaidAdmitsAll ==
    (/\ lastAdmit.op \in {"files-selected", "file-dropped"}
     /\ lastAdmit.license # None
     /\ ~AdmitIsTrial) =>
        /\ lastAdmit.kept
        /\ AppendedPaths = lastAdmit.offered

\* a paid snapshot took both offered paths on top of an entry it already had
C5_Witness ==
    /\ lastAdmit.op = "files-selected"
    /\ lastAdmit.license # None
    /\ ~AdmitIsTrial
    /\ Len(lastAdmit.offered) = 2
    /\ Len(audioFiles) = MaxFiles + 0
    /\ Len(lastAdmit.appended) = 2

\* C6: under a trial license with no slot available, a files-selected event that
\* offers at least one path, or a file-dropped event, leaves the list unchanged
\* and sets the upgrade prompt flag.
C6_ExhaustedAdmitsNone ==
    (/\ lastAdmit.op \in {"files-selected", "file-dropped"}
     /\ AdmitIsTrial
     /\ AdmitSlots = 0
     /\ Len(lastAdmit.offered) >= 1) =>
        /\ lastAdmit.kept
        /\ lastAdmit.appended = <<>>
        /\ showUpgradeModal

\* a drop was refused with the list already holding the whole quota
C6_Witness ==
    /\ lastAdmit.op = "file-dropped"
    /\ AdmitIsTrial
    /\ lastAdmit.r = 1
    /\ lastAdmit.c = 1
    /\ Len(audioFiles) = 1
    /\ showUpgradeModal

(***************************************************************************)
(* Activation protocol properties                                          *)
(***************************************************************************)
\* C7: after exactly 3 consecutive failed activation attempts,
\* canAttemptActivation() returns false at every time before the third failure
\* plus 60 s, and from then on it returns true and leaves the counter at 0.
C7_LockoutWindow ==
    failedInARow = 3 =>
        IF now < thirdFailureAt + 60000
        THEN ~canAttemptActivation(ActState)
        ELSE /\ canAttemptActivation(ActState)
             /\ canAttemptActivationState(ActState).activationAttempts = 0

\* the lockout of three failures has run out and the counter is back at 0
C7_Witness ==
    /\ failedInARow = 3
    /\ now >= thirdFailureAt + 60000
    /\ activationAttempts = 0
    /\ lockoutUntil = 0

\* C8: the attempt counter is always in 0..3; whenever it is 3 a lockout
\* deadline is set, and no activation request is issued before the deadline.
C8_CounterAndLockout ==
    /\ activationAttempts \in 0..3
    /\ activationAttempts = 3 =>
          /\ lockoutUntil > 0
          /\ now < lockoutUntil => (actReq = None \/ actReq[1].kind # "activate")
    /\ (lastAct.op = "activateLicense" /\ lastAct.outcome = "sent") =>
          ~(lastAct.attemptsBefore = 3 /\ lastAct.at < lastAct.lockoutBefore)

\* locked out, with a well-formed key typed and the dialog open, before the deadline
C8_Witness ==
    /\ activationAttempts = 3
    /\ lockoutUntil > 0
    /\ now > 0
    /\ now < lockoutUntil
    /\ showSettings
    /\ licenseKey = KeyGood
    /\ ~isActivating

\* C9: activateLicense sends no request, leaves the busy flag and the attempt
\* counter alone and only sets an error message when the key is empty or
\* whitespace, fails the format check, or canAttemptActivation() is false.
C9_FailFast ==
    (/\ lastAct.op = "activateLicense"
     /\ \/ Trim(lastAct.key) = <<>>
        \/ ~(StartsWith(lastAct.key, KeyPrefix) /\ Len(lastAct.key) >= 20)
        \/ lastAct.at < lastAct.lockoutBefore) =>
        /\ lastAct.outcome # "sent"
        /\ actReq = None
        /\ lastAct.busyAfter = lastAct.busyBefore
        /\ lastAct.attemptsAfter = lastAct.attemptsBefore
        /\ lastAct.lockoutAfter = lastAct.lockoutBefore
        /\ lastAct.errorAfter # MsgNone

\* a well-formed key was refused during the lockout
C9_Witness ==
    /\ lastAct.op = "activateLicense"
    /\ lastAct.key = KeyGood
    /\ lastAct.at < lastAct.lockoutBefore
    /\ lastAct.attemptsBefore = 3
    /\ activationError = MsgTooMany

\* C10: every failed activation request, rejected or broken in transport,
\* increments the attempt counter by one; when the counter reaches 3 the deadline
\* is the current time plus 60 s and the lockout message replaces the error's own.
C10_FailureCounts ==
    lastAct.op = "failed" =>
        /\ lastAct.outcome \in Rejections \cup TransportErrors
        /\ lastAct.attemptsAfter = lastAct.attemptsBefore + 1
        /\ IF lastAct.attemptsAfter = 3
           THEN /\ lastAct.lockoutAfter = lastAct.at + 60000
                /\ lastAct.errorAfter = MsgLockedOut
           ELSE /\ lastAct.lockoutAfter = lastAct.lockoutBefore
                /\ lastAct.errorAfter # MsgLockedOut

\* the third failure was a transport error, some time after the second
C10_Witness ==
    /\ lastAct.op = "failed"
    /\ lastAct.outcome = "network"
    /\ lastAct.attemptsAfter = 3
    /\ lastAct.at > 0
    /\ lockoutUntil = lastAct.at + 60000

\* C11: a successful activation leaves the counter at 0, the lockout deadline at
\* 0 and the key field empty and starts a license refresh; when the refresh has
\* returned, the settings dialog and the trial-expired dialog are closed.
C11_SuccessResets ==
    /\ lastAct.op = "activated" =>
           /\ lastAct.attemptsAfter = 0
           /\ lastAct.lockoutAfter = 0
           /\ licenseKey = <<>>
           /\ actReq = Some([kind |-> "activate-refresh"])
    /\ lastAct.op = "refreshed" => ~showSettings /\ ~showTrialExpired

C11_Witness ==
    /\ lastAct.op = "activated"
    /\ lastAct.attemptsBefore = 2
    /\ lastAct.key = KeyGood
    /\ showSettings

DeactivationOps ==
    {"deactivateLicense", "deactivated", "deactivation-failed", "deactivation-refreshed"}

\* C12: no step of deactivateLicense writes the attempt counter or the lockout
\* deadline; a successful deactivation starts a license refresh and closes the
\* confirmation dialog when it has returned; a failed one sets the error message
\* (and drops the busy flag) and leaves the key, the dialogs and the license alone.
C12_DeactivationFrame ==
    [][lastAct'.op \in DeactivationOps =>
          /\ lastAct'.attemptsAfter = activationAttempts
          /\ lastAct'.lockoutAfter = lockoutUntil
          /\ lastAct'.op = "deactivated" => actReq' = Some([kind |-> "deactivate-refresh"])
          /\ lastAct'.op = "deactivation-refreshed" => ~showDeactivationModal'
          /\ lastAct'.op = "deactivation-failed" =>
                 /\ activationError' = DeactivationMessage(lastAct'.outcome)
                 /\ actReq' = None
                 /\ licenseKey' = licenseKey
                 /\ showSettings' = showSettings
                 /\ showDeactivationModal' = showDeactivationModal
                 /\ showTrialExpired' = showTrialExpired
                 /\ licenseInfo' = licenseInfo
                 /\ remainingTrialFiles' = remainingTrialFiles]_vars

C12_Witness ==
    /\ lastAct.op = "deactivation-failed"
    /\ lastAct.outcome = "network"
    /\ lastAct.attemptsBefore = 2
    /\ showDeactivationModal

\* C13: while an activation or deactivation request is in flight the busy flag
\* is set, and while the busy flag is set neither the Activate button nor the
\* Deactivate License button takes a click, so no second request is issued.
C13_OneRequest ==
    /\ actReq # None => isActivating
    /\ isActivating => ~activateEnabled /\ ~DeactivateButtonEnabled(ActState)

C13_Witness ==
    /\ actReq = Some([kind |-> "deactivate"])
    /\ showSettings
    /\ showDeactivationModal
    /\ ~LicenseIsPro(ActState)
    /\ Trim(licenseKey) # <<>>

(***************************************************************************)
(* Progress poller properties                                              *)
(***************************************************************************)
PolledActive == lastRun.op = "progress-response" /\ lastRun.outcome = "active"

PolledEnded == lastRun.op = "progress-response" /\ lastRun.outcome = "ended"

\* fileProgress[index] || 0 of the snapshot the last response carried
ReportedProgress(i) ==
    LET r == ReportAt(lastRun.data, i)
    IN  IF r.progress = None THEN 0 ELSE r.progress[1]

ReportedToken(i) == ReportAt(lastRun.data, i).token

\* C14: after a snapshot with isProcessing=true every file whose own token is
\* Analyzing is analyzing; Normalizing is finalizing from progress 0.95 on and
\* processing below; completed is completed; error is error.
C14_TokenMapping ==
    PolledActive =>
        \A i \in 1..Len(audioFiles) :
            /\ ReportedToken(i) = "Analyzing" => audioFiles[i].status = "analyzing"
            /\ ReportedToken(i) = "Normalizing" =>
                   audioFiles[i].status =
                       IF ReportedProgress(i) >= 95 THEN "finalizing" ELSE "processing"
            /\ ReportedToken(i) = "completed" => audioFiles[i].status = "completed"
            /\ ReportedToken(i) = "error" => audioFiles[i].status = "error"

C14_Witness ==
    /\ PolledActive
    /\ Len(audioFiles) = 2
    /\ lastRun.data.reports[1] = Report("Normalizing", Some(95), None)
    /\ lastRun.data.reports[2].token = "Analyzing"
    /\ audioFiles[1].status = "finalizing"
    /\ audioFiles[2].status = "analyzing"

\* the loudness the poller has for file i after the last response: the reading
\* of the snapshot, or else the one the file had
KnownLUFS(i) ==
    OrElse(ReportAt(lastRun.data, i).reading, lastRun.found[i].currentLUFS)

\* C15: for a file whose token is absent or unknown the status is inferred:
\* with a non-zero loudness it is normalized when its progress is 1.0 and the
\* run has ended, finalizing or processing when progress > 0.5 and analyzed
\* otherwise; without one it is analyzing when progress > 0 and pending otherwise.
C15_InferredStatus ==
    /\ PolledActive =>
           \A i \in 1..Len(audioFiles) :
               ReportedToken(i) \notin {"Analyzing", "Normalizing", "completed", "error"} =>
                   audioFiles[i].status =
                       IF Truthy(KnownLUFS(i))
                       THEN IF ReportedProgress(i) > 50
                            THEN IF ReportedProgress(i) >= 95 THEN "finalizing"
                                 ELSE "processing"
                            ELSE "analyzed"
                       ELSE IF ReportedProgress(i) > 0 THEN "analyzing" ELSE "pending"
    /\ PolledEnded =>
           \A i \in 1..Len(audioFiles) :
               (lastRun.found[i].progress = Some(100) /\ Truthy(audioFiles[i].currentLUFS))
                   => audioFiles[i].status = "normalized"

\* the first processedFiles entry with the name of file i, if there is one
EndedEntry(i) ==
    LET pf == lastRun.data
        hits == {k \in 1..Len(pf) : pf[k].name = audioFiles[i].name}
    IN  IF hits = {} THEN None
        ELSE Some(pf[CHOOSE k \in hits : \A j \in hits : k <= j])

PriorLUFS(i) ==
    IF Truthy(lastRun.found[i].currentLUFS) THEN lastRun.found[i].currentLUFS ELSE Some(0)

EndedFrame(i) ==
    /\ audioFiles[i].name = lastRun.found[i].name
    /\ audioFiles[i].path = lastRun.found[i].path
    /\ audioFiles[i].status = "completed"
    /\ audioFiles[i].progress = Some(100)
    /\ audioFiles[i].newLUFS = Some(lastRun.target)

\* C20, as amended: after a snapshot with isProcessing=false the processing flag
\* is off and every file is completed with progress 1 and newLUFS the target;
\* its currentLUFS is the reading of the first processedFiles entry with its
\* name when that reading is there and not 0, and otherwise the value the file
\* had, or 0 when it had none.
C20_EndedCompletesAll ==
    PolledEnded =>
        /\ ~isProcessing
        /\ Len(audioFiles) = Len(lastRun.found)
        /\ \A i \in 1..Len(audioFiles) :
               /\ EndedFrame(i)
               /\ audioFiles[i].currentLUFS =
                      IF EndedEntry(i) # None /\ Truthy(EndedEntry(i)[1].currentLUFS)
                      THEN EndedEntry(i)[1].currentLUFS
                      ELSE PriorLUFS(i)

C20_Witness ==
    /\ PolledEnded
    /\ Len(audioFiles) = 2
    /\ Len(lastRun.data) = 2
    /\ lastRun.found[1].currentLUFS = None
    /\ audioFiles[1].currentLUFS = Some(-9)
    /\ audioFiles[2].currentLUFS = Some(-7)

\* C20, as stated: ... its currentLUFS is that of the processedFiles entry with
\* its name whenever the backend supplied one, and otherwise the value it had.
C20_EndedTakesEntry ==
    PolledEnded =>
        /\ ~isProcessing
        /\ \A i \in 1..Len(audioFiles) :
               /\ EndedFrame(i)
               /\ audioFiles[i].currentLUFS =
                      IF EndedEntry(i) # None /\ EndedEntry(i)[1].currentLUFS # None
                      THEN EndedEntry(i)[1].currentLUFS
                      ELSE PriorLUFS(i)

(***************************************************************************)
(* Session controller properties                                           *)
(***************************************************************************)
StopRuleApplied == lastRun.op = "stop-response" /\ lastRun.outcome # "error"

\* C16: where the stop rule is applied, a completed or normalized file is left
\* as it was in every field, and any other file becomes stopped with progress
\* 0 and no newLUFS, keeping its name, its path and its currentLUFS.
C16_StopRuleFrame ==
    StopRuleApplied =>
        /\ Len(audioFiles) = Len(lastRun.found)
        /\ \A i \in 1..Len(audioFiles) :
               IF lastRun.found[i].status \in {"completed", "normalized"}
               THEN audioFiles[i] = lastRun.found[i]
               ELSE /\ audioFiles[i].status = "stopped"
                    /\ audioFiles[i].progress = Some(0)
                    /\ audioFiles[i].newLUFS = None
                    /\ audioFiles[i].currentLUFS = lastRun.found[i].currentLUFS
                    /\ audioFiles[i].name = lastRun.found[i].name
                    /\ audioFiles[i].path = lastRun.found[i].path

C16_Witness ==
    /\ StopRuleApplied
    /\ Len(audioFiles) = 2
    /\ lastRun.found[1].status = "finalizing"
    /\ lastRun.found[1].newLUFS # None
    /\ audioFiles[1].currentLUFS = Some(-9)
    /\ lastRun.found[2].status = "completed"
    /\ audioFiles[2].newLUFS # None

\* C17: startProcessing on a list that is not empty leaves, at the moment the
\* process request is out, every file pending with progress 0 and neither
\* currentLUFS nor newLUFS, whatever it was before, in a list of the same
\* length with the same names and paths in the same order.
C17_StartResets ==
    (lastRun.op = "startProcessing" /\ lastRun.outcome = "sent") =>
        /\ poll[nStarts].st = "starting"
        /\ Len(audioFiles) = Len(lastRun.found)
        /\ \A i \in 1..Len(audioFiles) :
               audioFiles[i] =
                   [name |-> lastRun.found[i].name, path |-> lastRun.found[i].path,
                    status |-> "pending", progress |-> Some(0),
                    currentLUFS |-> None, newLUFS |-> None]

C17_Witness ==
    /\ lastRun.op = "startProcessing"
    /\ lastRun.outcome = "sent"
    /\ Len(audioFiles) = 2
    /\ lastRun.found[1].status = "error"
    /\ lastRun.found[2].status = "completed"
    /\ lastRun.found[2].currentLUFS = Some(-9)

\* C18: a file has a newLUFS only while it is finalizing, normalized or
\* completed, and then it is the target loudness.
C18_NewLUFSOnlyWhenDone ==
    \A i \in 1..Len(audioFiles) :
        audioFiles[i].newLUFS # None =>
            /\ audioFiles[i].status \in {"finalizing", "normalized", "completed"}
            /\ audioFiles[i].newLUFS = Some(targetLUFS)

\* C19: a file that is stopped or in error keeps that status through every
\* progress response and every stop response.
C19_StoppedErrorAbsorbing ==
    lastRun.op \in {"progress-response", "stop-response"} =>
        \A i \in 1..Len(audioFiles) :
            lastRun.before[i] \in {"stopped", "error"} =>
                audioFiles[i].status = lastRun.before[i]

(***************************************************************************)
(* Failure handling of the poller and of start                             *)
(***************************************************************************)
PollFailed == lastRun.op = "progress-response" /\ lastRun.outcome = "error"

TerminalStatuses == {"completed", "normalized", "stopped", "error"}

\* every file is in a terminal status, the processing flag is off, and no
\* poll loop has a fetch in flight or a timer pending
RunAtRest ==
    /\ \A i \in 1..Len(audioFiles) : audioFiles[i].status \in TerminalStatuses
    /\ ~isProcessing
    /\ LivePollLoops = {}

\* C22: when timers fire, requests are answered, a repeated fetch gets through
\* at last and the backend's run ends, every poll loop that has been started
\* leads to a state where every file has a terminal status, the processing
\* flag is false and no poll is in flight or scheduled.
C22_RunComesToRest ==
    \A n \in 1..MaxStarts : (n \in LivePollLoops) ~> RunAtRest

\* the answer that the run has ended found files that were not terminal
C22_Witness ==
    /\ PolledEnded
    /\ RunAtRest
    /\ Len(audioFiles) = 2
    /\ lastRun.before[1] = "finalizing"
    /\ nStarts = 2

\* everything a call of startProcessing could write, but the record of the step
startWrites ==
    <<audioFiles, isProcessing, shouldStopPolling, targetLUFS, pollingTimeoutRef, poll,
      nStarts, stops, statusReq, beProcessing, stopForced>>

\* C23: startProcessing on an empty list tells the user to add files and does
\* nothing else: no process request is sent, no poll loop is started, and the
\* processing flag and every other part of the state are as before.
C23_EmptyStartRejected ==
    [][(lastRun' # lastRun /\ lastRun'.op = "startProcessing" /\ Len(audioFiles) = 0) =>
          /\ lastRun'.outcome = "empty"
          /\ lastRun'.alert = MsgAddFiles
          /\ isProcessing' = isProcessing
          /\ nStarts' = nStarts
          /\ \A n \in 1..MaxStarts : poll'[n].st = poll[n].st
          /\ UNCHANGED <<startWrites, notRun>>]_vars

\* the list was emptied after a run, and startProcessing was called on it
C23_Witness ==
    /\ lastRun.op = "startProcessing"
    /\ lastRun.outcome = "empty"
    /\ audioFiles = <<>>
    /\ nStarts = 1
    /\ ~isProcessing

\* C24: when the process request of startProcessing fails, the processing flag
\* is false afterwards, the loop of that call never fetches (no poll loop is
\* started, no timer is set, no file is touched), and a process request is only
\* ever sent by a call of startProcessing, never again by the failed call.
C24_FailedStartStops ==
    [][/\ (lastRun'.op = "process-response" /\ lastRun'.outcome = "error") =>
             /\ ~isProcessing'
             /\ audioFiles' = audioFiles
             /\ pollingTimeoutRef' = pollingTimeoutRef
             /\ \E n \in 1..MaxStarts :
                    /\ poll[n].st = "starting"
                    /\ poll'[n].st = "idle"
                    /\ \A m \in 1..MaxStarts \ {n} : poll'[m] = poll[m]
       /\ \A n \in 1..MaxStarts :
             (poll[n].st # "starting" /\ poll'[n].st = "starting") =>
                 /\ lastRun'.op = "startProcessing"
                 /\ poll[n].st = "idle"
                 /\ nStarts' = n
                 /\ nStarts = n - 1]_vars

\* the process request of a second run failed while the loop of the first was
\* still polling
C24_Witness ==
    /\ lastRun.op = "process-response"
    /\ lastRun.outcome = "error"
    /\ ~isProcessing
    /\ nStarts = 2
    /\ poll[2].st = "idle"
    /\ poll[1].st = "waiting"

(***************************************************************************)
(* Relations between start, stop and the poll cycles                       *)
(***************************************************************************)
StopAnswered == lastRun.op = "stop-response"

\* C25: when two calls of stopProcessing come to their end one right after the
\* other, the file statuses after the second are those after the first.
C25_StopTwice ==
    [][(StopAnswered /\ StopAnswered') => Statuses(audioFiles') = Statuses(audioFiles)]_vars

\* the same when the request of the first call was answered: the second call
\* finds only stopped, completed and normalized entries and changes none
C25_StopTwiceAnswered ==
    [][(StopRuleApplied /\ StopAnswered') => audioFiles' = audioFiles]_vars

\* the files are as the reset of startProcessing left them
FilesAsStarted == \A i \in 1..Len(audioFiles) : audioFiles[i] = ResetFile(audioFiles[i])

\* C26: when stopProcessing is called after startProcessing with every file
\* still as the start left it (no poll response has changed one), and comes
\* to its end, every file is stopped with progress 0.
C26_StartThenStop ==
    [][(/\ lastRun.op = "stopProcessing"
        /\ StopAnswered'
        /\ nStarts >= 1
        /\ ~stopForced
        /\ FilesAsStarted) =>
          \A i \in 1..Len(audioFiles') :
              audioFiles'[i].status = "stopped" /\ audioFiles'[i].progress = Some(0)]_vars

\* the same when the stop request was answered
C26_StartThenStopAnswered ==
    [][(/\ lastRun.op = "stopProcessing"
        /\ StopRuleApplied'
        /\ nStarts >= 1
        /\ ~stopForced
        /\ FilesAsStarted) =>
          \A i \in 1..Len(audioFiles') :
              audioFiles'[i].status = "stopped" /\ audioFiles'[i].progress = Some(0)]_vars

\* progress || 0 of a stored entry
StoredProgress(file) == IF file.progress = None THEN 0 ELSE file.progress[1]

\* C27: within a run that has not been stopped and has not ended, no poll
\* cycle stores a smaller progress for a file than the one it had.
C27_ProgressGrows ==
    [][(/\ lastRun'.op = "progress-response"
        /\ lastRun'.outcome = "active"
        /\ isProcessing
        /\ ~stopForced) =>
          \A i \in 1..Len(audioFiles) :
              StoredProgress(audioFiles'[i]) >= StoredProgress(audioFiles[i])]_vars


\* the timers of the session that are scheduled
PollTimerCancelled == PendingPollTimers = {}
StatusIntervalCancelled == \A k \in Instances : ~statusInterval[k]
LicenseIntervalCancelled == \A k \in Instances : licenseIntervalRef[k] = 0

\* C28: once the component is unmounted, no poll timer, no status-check
\* interval and no license-refresh interval is scheduled, whatever was in
\* flight at the unmount.
C28_NoTimerAfterUnmount ==
    ~mounted =>
        /\ PollTimerCancelled
        /\ StatusIntervalCancelled
        /\ LicenseIntervalCancelled

\* the part of C28 the code keeps: the status-check interval is cancelled
C28_StatusIntervalCancelled == ~mounted => StatusIntervalCancelled

\* the parts of C28 the code breaks, one by one
C28_PollTimerCancelled == ~mounted => PollTimerCancelled
C28_LicenseIntervalCancelled == ~mounted => LicenseIntervalCancelled

\* C29: over mounts and unmounts, every bridge channel has exactly one listener
\* while the component is mounted and none while it is not, so an event of the
\* bridge is handled once.
C29_OneListener ==
    \A ch \in Channels : Handlings(ch) = IF mounted THEN 1 ELSE 0

\* the component has been unmounted and is mounted for the second time, and a
\* dropped file has been handled by the new instance
C29_Witness ==
    /\ mounted
    /\ mounts = MaxMounts
    /\ Len(audioFiles) = 1
    /\ \A ch \in Channels : Handlings(ch) = 1

\* a step keeps the length and order of the list and the name and path of
\* every entry
IdentityKept ==
    /\ Len(audioFiles') = Len(audioFiles)
    /\ \A i \in 1..Len(audioFiles) :
           /\ audioFiles'[i].name = audioFiles[i].name
           /\ audioFiles'[i].path = audioFiles[i].path

\* a step adds entries at the end and leaves the entries there were as they are
AppendedAtEnd ==
    /\ Len(audioFiles') > Len(audioFiles)
    /\ SubSeq(audioFiles', 1, Len(audioFiles)) = audioFiles

\* a step of startProcessing, stopProcessing or a poll loop
RunStep == lastRun' # lastRun /\ lastRun'.op # "none"

\* C30: no entry is removed on its own and no entry changes its name or path:
\* a step that changes the list either appends at the end (an admission),
\* or empties the list (clear), or keeps length, order, names and paths; and
\* the steps of start, stop and the poll loops are of the last kind.
C30_EntriesKeepIdentity ==
    [][/\ \/ IdentityKept
          \/ AppendedAtEnd /\ lastAdmit'.op \in {"files-selected", "file-dropped"}
          \/ audioFiles' = <<>> /\ ~isProcessing
       /\ RunStep => IdentityKept]_vars

\* a poll response has been stored in a list of two entries with the same
\* path, the second of them admitted by a drop after the first
C30_Witness ==
    /\ lastRun.op = "progress-response"
    /\ Len(audioFiles) = MaxFiles
    /\ audioFiles[1].path = audioFiles[2].path
    /\ audioFiles[1].status # "pending"
    /\ lastAdmit.op = "file-dropped"

\* the format contract in the words of the specification: the first eight
\* characters are RAFILIS- and there are at least 20 characters
WellFormedKey(key) ==
    /\ Len(key) >= 20
    /\ SubSeq(key, 1, 8) = <<"R", "A", "F", "I", "L", "I", "S", "-">>

\* C31: the format check accepts a key exactly when it begins with RAFILIS-
\* and has at least 20 characters: RAFILIS-AAAAAAAAAAAA passes, RAFILIS-123
\* and BADPREFIX-AAAAAAAAAAAA fail.
C31_FormatContract ==
    (lastAct.op = "activateLicense" /\ Trim(lastAct.key) # <<>>) =>
        /\ (lastAct.outcome = "format") <=> ~WellFormedKey(lastAct.key)
        /\ lastAct.key = KeyGood => lastAct.outcome \in {"sent", "locked"}
        /\ lastAct.key \in {KeyShort, KeyBadPrefix} => lastAct.outcome = "format"

\* activateLicense has refused BADPREFIX-AAAAAAAAAAAA, a key of 22 characters
C31_Witness ==
    /\ lastAct.op = "activateLicense"
    /\ lastAct.key = KeyBadPrefix
    /\ Len(lastAct.key) >= 20
    /\ lastAct.outcome = "format"
    /\ activationError = MsgInvalidFormat

\* what loop n has out: a progress request sent and not yet processed, a timer
\* set and not yet fired
RequestInFlight(n) == poll[n].st \in {"fetching", "answered-active", "answered-ended"}
TimerPending(n) == poll[n].st = "waiting"

\* C32: within one poll loop the timer of the next cycle is set only by the
\* step that processes the response or the error of the cycle before, and a
\* progress request is sent only by the first call of pollForUpdates or by
\* the firing of the loop's timer; so a loop never has a request in flight
\* together with another request or with its own timer.
C32_CyclesInSequence ==
    [][\A n \in 1..MaxStarts :
          /\ (TimerPending(n)' /\ ~TimerPending(n)) =>
                 /\ RequestInFlight(n)
                 /\ lastRun'.op = "progress-response"
                 /\ lastRun'.outcome \in {"active", "error"}
          /\ (RequestInFlight(n)' /\ ~RequestInFlight(n)) =>
                 /\ poll[n].st \in {"starting", "waiting"}
                 /\ poll'[n].st = "fetching"
          /\ ~(RequestInFlight(n)' /\ TimerPending(n)')]_vars

\* two loops are alive, the first with its timer set after a failed cycle and
\* the second with its request out: a request and a timer at once, of two loops
C32_Witness ==
    /\ TimerPending(1)
    /\ poll[1].delay = ErrorDelayMs
    /\ RequestInFlight(2)

\* C33: a file whose currentLUFS is set to a non-zero value still has a non-zero
\* currentLUFS after every poll response, run end and stop; only the reset of
\* startProcessing removes it.
C33_ReadingStays ==
    [][lastRun'.op # "startProcessing" =>
          /\ Len(audioFiles') = Len(audioFiles)
          /\ \A i \in 1..Len(audioFiles) :
                 Truthy(audioFiles[i].currentLUFS) => Truthy(audioFiles'[i].currentLUFS)]_vars

\* a poll response without a reading for the first file has been stored, and
\* the file has the reading it had
C33_Witness ==
    /\ lastRun.op = "progress-response"
    /\ lastRun.outcome = "active"
    /\ Truthy(lastRun.found[1].currentLUFS)
    /\ lastRun.data.reports[1].reading = None
    /\ audioFiles[1].currentLUFS = lastRun.found[1].currentLUFS

\* the tier of the license snapshot the component holds
SnapshotTier ==
    IF licenseInfo # None /\ licenseInfo[1].status \in {StrPro, StrProOffline}
    THEN "paid" ELSE "trial"

\* the period the claim asks for
CheckMsOf(tier) == IF tier = "paid" THEN ProCheckMs ELSE TrialCheckMs

\* the cadence lookup of the mounted instance is done, no activation or
\* deactivation is under way and the snapshot shows the tier the backend has
CadenceSettled ==
    /\ mounted
    /\ cadence[mounts] = "done"
    /\ actReq = None
    /\ licenseInfo # None
    /\ SnapshotTier = beTier

\* C34: while the component is mounted, the license status is re-fetched every
\* 5 s when the license is trial and every 30 s when it is paid, also after an
\* activation or a deactivation has changed the tier.
C34_CadenceMatchesTier ==
    CadenceSettled => licenseIntervalRef[mounts] = CheckMsOf(beTier)

\* the part of C34 the code keeps: the period is the one of the tier the
\* lookup of the mount effect saw, or the trial one when the lookup failed
C34_CadenceOfMount ==
    (mounted /\ cadence[mounts] = "done") => licenseIntervalRef[mounts] \in CheckIntervals

\* a bridge event was handled under a trial snapshot whose quota is the number
\* the handler read, on a list that was within that quota
AdmittedWithinQuota ==
    /\ lastAdmit.op \in {"files-selected", "file-dropped"}
    /\ AdmitIsTrial
    /\ lastAdmit.license[1].remaining_trial_files = lastAdmit.r
    /\ Len(audioFiles) - Len(lastAdmit.appended) <= lastAdmit.r

\* C35: under a trial license with remaining quota r, a files-selected or
\* file-dropped event handled on a list of at most r entries leaves at most r
\* entries, also when the event before it has not yet reached audioFilesRef.
C35_ListWithinQuota ==
    AdmittedWithinQuota => Len(audioFiles) <= lastAdmit.r

\* the same when the handler read the file count the list had
C35_ListWithinQuotaSynced ==
    (AdmittedWithinQuota /\ lastAdmit.c = Len(audioFiles) - Len(lastAdmit.appended)) =>
        Len(audioFiles) <= lastAdmit.r

\* stopProcessing has been called since the last call of startProcessing: the
\* first sets shouldStopPolling (407, 439), the second clears it (454)
StoppedSinceStart == shouldStopPolling

\* C36: from the moment stopProcessing has cleared the processing flag until
\* the next startProcessing, the flag is false: no status check and no poll
\* response sets it again.
C36_FlagStaysDown == StoppedSinceStart => ~isProcessing

\* the same for the steps of the poll loops alone: none of them raises the flag
C36_PollKeepsFlagDown ==
    [][(lastRun'.op \in {"progress-response", "process-response", "stop-response"}
        /\ ~isProcessing) => ~isProcessing']_vars

\* remainingTrialFiles is written by a successful fetch alone: the quota of a
\* trial snapshot (150) or the unlimited mark of any other (155). A number that
\* is neither that mark nor the initial value says that the last snapshot
\* fetched with success was a trial one
AdmitAfterTrialSnapshot ==
    /\ lastAdmit.op \in {"files-selected", "file-dropped"}
    /\ lastAdmit.r \notin {InitialRemaining, Unlimited}

\* C37: when the last snapshot fetched with success was a trial one, a
\* files-selected or file-dropped event admits at most max(0, r - c) paths,
\* also when a later fetch has failed.
C37_FailedRefreshKeepsQuota ==
    AdmitAfterTrialSnapshot => Len(lastAdmit.appended) <= AdmitSlots

\* the same while the snapshot is still there
C37_SnapshotKeepsQuota ==
    (AdmitAfterTrialSnapshot /\ lastAdmit.license # None) =>
        Len(lastAdmit.appended) <= AdmitSlots

\* an activation request is on its way to the backend
ActivationInFlight == actReq # None /\ actReq[1].kind = "activate"

\* C38: the key an activation request carries begins with RAFILIS- and has at
\* least 20 characters, whatever was typed, blanks at either end included.
C38_SentKeyWellFormed ==
    ActivationInFlight => WellFormedKey(actReq[1].licenseKey)

\* the same for keys typed without a blank at either end
C38_SentKeyWellFormedUnpadded ==
    (ActivationInFlight /\ Trim(licenseKey) = licenseKey) =>
        WellFormedKey(actReq[1].licenseKey)

\* a step in which a poll loop finds the run ended and stores its completion
RunEndStep ==
    /\ lastRun' # lastRun
    /\ lastRun'.op = "progress-response"
    /\ lastRun'.outcome = "ended"

\* entry i of the list was appended after the last call of startProcessing and
\* after the last poll cycle: the reset of startProcessing and every poll
\* cycle give an entry a progress, and a new entry has none
AppendedSinceStart(i) == audioFiles[i].progress = None

\* C39: when a run ends, only the files of the list that was sent with its
\* process request are marked completed; a file appended while the run was
\* active is still pending.
C39_AppendedStaysPending ==
    [][RunEndStep =>
          \A i \in 1..Len(audioFiles) :
              AppendedSinceStart(i) => audioFiles'[i].status = "pending"]_vars

\* the part of C39 the code keeps: the files that were sent, like every other
\* entry of the list, are completed
C39_SentAreCompleted ==
    [][RunEndStep =>
          \A i \in 1..Len(audioFiles) :
              ~AppendedSinceStart(i) => audioFiles'[i].status = "completed"]_vars

\* a step in which an activation request fails
FailureStep == lastAct' # lastAct /\ lastAct'.op = "failed"

\* three failures in a row led to the lockout before this request; a request
\* is sent only after the deadline, so this is the first one after the expiry
FirstAfterLockout == failedInARow = 3

C40_SecondLockout ==
    /\ lastAct.op = "failed"
    /\ failedInARow = 4
    /\ activationAttempts = 3
    /\ lockoutUntil = now + 60000
    /\ now >= 60000

=============================================================================
